---- MODULE Spec2Model ----
(***************************************************************************)
(* A model of the GraphQL document builders of trompace: the entity        *)
(* functions for Application, MediaObject, ItemList/ListItem, DigitalDocu- *)
(* ment and MusicComposition.  Every function is a mapping from its bound  *)
(* parameters to either a raised exception or one call of a formatter.     *)
(*                                                                         *)
(* Spec runs one call as one step: it records the bound parameters (call)  *)
(* and what the call ended with (outcome): the exception raised, or the    *)
(* formatter that was invoked together with the operation name and the     *)
(* arguments handed to it.                                                 *)
(*                                                                         *)
(* Interleaved runs the calls of several callers statement by statement,   *)
(* in any interleaving: every caller has a frame (frames), and the callers *)
(* share the module-level objects (module_data) and the lists they pass    *)
(* by reference (heap).                                                    *)
(***************************************************************************)
EXTENDS Integers, Sequences, FiniteSets, TLC

VARIABLES call, outcome, frames, module_data, heap

vars == <<call, outcome, frames, module_data, heap>>

(***************************************************************************)
(* Bounds of the model.                                                    *)
(***************************************************************************)
\* At most this many optional parameters are supplied (non-None) in one call.
MaxSupplied == 2
\* At most this many required parameters are missing or empty in one call.
MaxMissing == 2
\* The longest list of identifiers handed to a sequence mutation.
MaxIds == 3

(***************************************************************************)
(* Python values.  A string is a sequence of one-character strings, so     *)
(* that membership of "/" and lower-casing are computed, not assumed.      *)
(***************************************************************************)
None == [t |-> "None"]
Str(s) == [t |-> "str", s |-> s]
IntV(n) == [t |-> "int", n |-> n]
List(l) == [t |-> "list", items |-> l]
Member(name) == [t |-> "ItemListOrderType", name |-> name]

\* trompace.StringConstant: a marker whose value prints unquoted.
StringConstant(v) == [t |-> "StringConstant", value |-> v]
\* trompace._Neo4jDate: a marker whose value prints as a date literal.
_Neo4jDate(v) == [t |-> "_Neo4jDate", date |-> v]

IsStr(v) == v.t = "str"

\* Python truthiness of a value (bool(v)).
Truthy(v) ==
    /\ v /= None
    /\ v /= Str(<<>>)
    /\ v /= IntV(0)
    /\ v /= List(<<>>)

\* Python's  c in s  for a one-character c and a string s.
Contains(v, c) == \E i \in DOMAIN v.s : v.s[i] = c

UpperCase == <<"A", "B", "C", "D", "E", "F", "G", "H", "I", "J", "K", "L", "M",
               "N", "O", "P", "Q", "R", "S", "T", "U", "V", "W", "X", "Y", "Z">>
LowerCase == <<"a", "b", "c", "d", "e", "f", "g", "h", "i", "j", "k", "l", "m",
               "n", "o", "p", "q", "r", "s", "t", "u", "v", "w", "x", "y", "z">>

LowerChar(c) ==
    IF \E i \in DOMAIN UpperCase : UpperCase[i] = c
    THEN LowerCase[CHOOSE i \in DOMAIN UpperCase : UpperCase[i] = c]
    ELSE c

\* str.lower()
lower(v) == Str([i \in DOMAIN v.s |-> LowerChar(v.s[i])])

\* SUPPORTED_LANGUAGES = {"en", "es", "ca", "nl", "de", "fr"}
SUPPORTED_LANGUAGES ==
    { Str(<<"e", "n">>), Str(<<"e", "s">>), Str(<<"c", "a">>),
      Str(<<"n", "l">>), Str(<<"d", "e">>), Str(<<"f", "r">>) }

\* Members of the ordering enumeration named by the item list module.
ItemListOrderType ==
    { Member("ItemListOrderAscending"), Member("ItemListOrderDescending"),
      Member("ItemListUnordered") }

(***************************************************************************)
(* Outcomes of a call.                                                     *)
(***************************************************************************)
Pending == [kind |-> "pending"]
Raise(exc) == [kind |-> "raise", exc |-> exc]

\* raise <exc>(<value>): the exception carries the value it was built with.
RaiseWith(exc, value) == [kind |-> "raise", exc |-> exc, value |-> value]

\* format_mutation / format_query / mutation_create: one operation, one
\* argument mapping (a function from keys to values).
Formatted(formatter, operation, args) ==
    [kind |-> "document", formatter |-> formatter, operation |-> operation,
     args |-> args]

Raised(o) == o.kind = "raise"
RaisedExc(o, exc) == o.kind = "raise" /\ o.exc = exc
IsDocument(o) == o.kind = "document"

\* format_query: one operation, an argument mapping and the return fields.
Queried(operation, args, return_items) ==
    [kind |-> "document", formatter |-> "format_query", operation |-> operation,
     args |-> args, return_items |-> return_items]

\* format_link_mutation / mutation_link: one operation and the two
\* identifiers placed in the from and to slots.
Linked(formatter, operation, identifier_1, identifier_2) ==
    [kind |-> "document", formatter |-> formatter, operation |-> operation,
     identifier_1 |-> identifier_1, identifier_2 |-> identifier_2]

\* format_sequence_link_mutation / format_sequence_mutation: the ordered list
\* of (alias, operation, args) triples.
Sequenced(formatter, mutations) ==
    [kind |-> "document", formatter |-> formatter, mutations |-> mutations]

(***************************************************************************)
(* Shared helpers of the package.                                          *)
(***************************************************************************)
\* A required argument is missing when it is None or empty.
IsMissing(v) == v = None \/ v = Str(<<>>) \/ v = List(<<>>)

\* check_required_args(**kwargs): TRUE when the missing-argument error is
\* raised for the given values.
check_required_args(values) == \E v \in values : IsMissing(v)

\* filter_none_args(args): the mapping without the keys whose value is None.
filter_none_args(args) ==
    [k \in {x \in DOMAIN args : args[x] /= None} |-> args[k]]

\* _verify_additional_type: None stays None, one string becomes a list of
\* that string, a list is kept.
_verify_additional_type(v) ==
    IF v = None THEN None
    ELSE IF IsStr(v) THEN List(<<v>>)
    ELSE v

(***************************************************************************)
(* trompace/mutations/application.py                                       *)
(***************************************************************************)
\* create_application_args with the language left a plain (quoted) string.
create_application_args_quoted_language(kw) ==
    LET args == [title |-> kw.application_name,
                 name |-> kw.application_name,
                 contributor |-> kw.contributor,
                 creator |-> kw.creator,
                 source |-> kw.source,
                 subject |-> kw.subject,
                 description |-> kw.description,
                 format |-> kw.formatin,
                 language |-> lower(kw.language)]
    IN IF Truthy(kw.identifier)
       THEN [identifier |-> kw.identifier] @@ args
       ELSE args

\* The args dictionary of mutation_create_application.
create_application_args(kw) ==
    LET args == [title |-> kw.application_name,
                 name |-> kw.application_name,
                 contributor |-> kw.contributor,
                 creator |-> kw.creator,
                 source |-> kw.source,
                 subject |-> kw.subject,
                 description |-> kw.description,
                 format |-> kw.formatin,
                 language |-> StringConstant(lower(kw.language))]
    IN IF Truthy(kw.identifier)
       THEN [identifier |-> kw.identifier] @@ args
       ELSE args

mutation_create_application(kw) ==
    IF kw.language \notin SUPPORTED_LANGUAGES
    THEN Raise("UnsupportedLanguageException")
    ELSE IF ~Contains(kw.formatin, "/")
    THEN RaiseWith("NotAMimeTypeException", kw.formatin)
    ELSE Formatted("mutation_create", "CreateSoftwareApplication",
                   create_application_args(kw))

\* mutation_add_entrypoint_application handing its parameters to the link
\* formatter in their declaration order.
mutation_add_entrypoint_application_declared_order(kw) ==
    Linked("mutation_link", "AddEntryPointActionApplication",
           kw.application_id, kw.entrypoint_id)

mutation_add_entrypoint_application(kw) ==
    Linked("mutation_link", "AddEntryPointActionApplication",
           kw.entrypoint_id, kw.application_id)

(***************************************************************************)
(* trompace/mutations/mediaobject.py                                       *)
(***************************************************************************)
\* The args dictionary of mutation_create_media_object, before filtering.
create_media_object_args(kw) ==
    LET args == [title |-> kw.title,
                 contributor |-> kw.contributor,
                 creator |-> kw.creator,
                 source |-> kw.source,
                 format |-> kw.format_,
                 name |-> kw.name,
                 description |-> kw.description,
                 encodingFormat |-> kw.encodingformat,
                 embedUrl |-> kw.embedurl,
                 url |-> kw.url,
                 license |-> kw.license,
                 contentUrl |-> kw.contenturl,
                 inLanguage |-> kw.inlanguage]
        args1 == IF kw.date /= None
                 THEN [date |-> _Neo4jDate(kw.date)] @@ args
                 ELSE args
    IN IF kw.language /= None
       THEN [language |-> StringConstant(lower(kw.language))] @@ args1
       ELSE args1

\* mutation_create_media_object validating in the order of
\* mutation_update_media_object: the two MIME types before the language.
mutation_create_media_object_mime_first(kw) ==
    IF check_required_args({kw.title, kw.contributor, kw.creator, kw.source,
                            kw.format_})
    THEN Raise("MissingArgument")
    ELSE IF ~Contains(kw.format_, "/")
    THEN RaiseWith("NotAMimeTypeException", kw.format_)
    ELSE IF kw.encodingformat /= None /\ ~Contains(kw.encodingformat, "/")
    THEN RaiseWith("NotAMimeTypeException", kw.encodingformat)
    ELSE IF kw.language /= None /\ kw.language \notin SUPPORTED_LANGUAGES
    THEN Raise("UnsupportedLanguageException")
    ELSE Formatted("format_mutation", "CreateMediaObject",
                   filter_none_args(create_media_object_args(kw)))

mutation_create_media_object(kw) ==
    IF check_required_args({kw.title, kw.contributor, kw.creator, kw.source,
                            kw.format_})
    THEN Raise("MissingArgument")
    ELSE IF kw.language /= None /\ kw.language \notin SUPPORTED_LANGUAGES
    THEN Raise("UnsupportedLanguageException")
    ELSE IF ~Contains(kw.format_, "/")
    THEN RaiseWith("NotAMimeTypeException", kw.format_)
    ELSE IF kw.encodingformat /= None /\ ~Contains(kw.encodingformat, "/")
    THEN RaiseWith("NotAMimeTypeException", kw.encodingformat)
    ELSE Formatted("format_mutation", "CreateMediaObject",
                   filter_none_args(create_media_object_args(kw)))

\* The args dictionary of mutation_update_media_object, before filtering.
update_media_object_args(kw) ==
    LET args == [identifier |-> kw.identifier,
                 name |-> kw.name,
                 title |-> kw.title,
                 description |-> kw.description,
                 creator |-> kw.creator,
                 contributor |-> kw.contributor,
                 format |-> kw.format_,
                 encodingFormat |-> kw.encodingformat,
                 source |-> kw.source,
                 subject |-> kw.subject,
                 contentUrl |-> kw.contenturl,
                 license |-> kw.license,
                 inLanguage |-> kw.inlanguage]
        args1 == IF Truthy(kw.date)
                 THEN [date |-> _Neo4jDate(kw.date)] @@ args
                 ELSE args
    IN IF Truthy(kw.language)
       THEN [language |-> StringConstant(lower(kw.language))] @@ args1
       ELSE args1

\* mutation_update_media_object with the language tested by truthiness
\* (if language and ...), so that an empty language is let through.
mutation_update_media_object_truthy_language(kw) ==
    IF kw.format_ /= None /\ ~Contains(kw.format_, "/")
    THEN RaiseWith("NotAMimeTypeException", kw.format_)
    ELSE IF kw.encodingformat /= None /\ ~Contains(kw.encodingformat, "/")
    THEN RaiseWith("NotAMimeTypeException", kw.encodingformat)
    ELSE IF Truthy(kw.language) /\ kw.language \notin SUPPORTED_LANGUAGES
    THEN Raise("UnsupportedLanguageException")
    ELSE Formatted("format_mutation", "UpdateMediaObject",
                   filter_none_args(update_media_object_args(kw)))

mutation_update_media_object(kw) ==
    IF kw.format_ /= None /\ ~Contains(kw.format_, "/")
    THEN RaiseWith("NotAMimeTypeException", kw.format_)
    ELSE IF kw.encodingformat /= None /\ ~Contains(kw.encodingformat, "/")
    THEN RaiseWith("NotAMimeTypeException", kw.encodingformat)
    ELSE IF kw.language /= None /\ kw.language \notin SUPPORTED_LANGUAGES
    THEN Raise("UnsupportedLanguageException")
    ELSE Formatted("format_mutation", "UpdateMediaObject",
                   filter_none_args(update_media_object_args(kw)))

mutation_merge_media_object_work_example(kw) ==
    Linked("format_link_mutation", "MergeMediaObjectExampleOfWork",
           kw.media_object_identifier, kw.work_identifier)

mutation_remove_media_object_work_example(kw) ==
    Linked("format_link_mutation", "RemoveMediaObjectExampleOfWork",
           kw.media_object_identifier, kw.work_identifier)

mutation_merge_media_object_encoding(kw) ==
    Linked("format_link_mutation", "MergeMediaObjectEncoding",
           kw.media_object_identifier_1, kw.media_object_identifier_2)

mutation_remove_media_object_encoding(kw) ==
    Linked("format_link_mutation", "RemoveMediaObjectEncoding",
           kw.media_object_identifier_1, kw.media_object_identifier_2)

(***************************************************************************)
(* trompace/queries/mediaobject.py                                         *)
(***************************************************************************)
\* The args dictionary of query_mediaobject, before filtering.
query_mediaobject_args(kw) ==
    [identifier |-> kw.identifier,
     creator |-> kw.creator,
     contributor |-> kw.contributor,
     encodingFormat |-> kw.encodingFormat,
     source |-> kw.source,
     contentUrl |-> kw.contentUrl,
     inLanguage |-> kw.inLanguage]

query_mediaobject(kw) ==
    IF Truthy(kw.encodingFormat) /\ ~Contains(kw.encodingFormat, "/")
    THEN RaiseWith("NotAMimeTypeException", kw.encodingFormat)
    ELSE Queried("MediaObject", filter_none_args(query_mediaobject_args(kw)),
                 kw.return_items_list)

(***************************************************************************)
(* trompace/mutations/itemlist.py                                          *)
(***************************************************************************)
\* isinstance taken to hold of a plain string that names a member as well.
IsItemListOrderType_by_name(v) ==
    \/ v \in { Member("ItemListOrderAscending"),
               Member("ItemListOrderDescending"), Member("ItemListUnordered") }
    \/ v = Str(<<"I", "t", "e", "m", "L", "i", "s", "t", "U", "n", "o", "r",
                 "d", "e", "r", "e", "d">>)

\* isinstance(v, ItemListOrderType)
IsItemListOrderType(v) == v \in ItemListOrderType

\* The args dictionary of mutation_create_itemlist, before filtering.
create_itemlist_args(kw) ==
    LET args == [creator |-> kw.creator,
                 name |-> kw.name,
                 contributor |-> kw.contributor,
                 description |-> kw.description,
                 additionalType |-> _verify_additional_type(kw.additionaltype)]
    IN IF Truthy(kw.itemlistorder)
       THEN [itemListOrder |-> StringConstant(kw.itemlistorder)] @@ args
       ELSE args

\* mutation_create_itemlist without the call of filter_none_args.
mutation_create_itemlist_unfiltered(kw) ==
    IF ~IsItemListOrderType(kw.itemlistorder)
    THEN Raise("InvalidItemListOrderTypeException")
    ELSE IF check_required_args({kw.name, kw.creator})
    THEN Raise("MissingArgument")
    ELSE Formatted("format_mutation", "CreateItemList", create_itemlist_args(kw))

mutation_create_itemlist(kw) ==
    IF ~IsItemListOrderType(kw.itemlistorder)
    THEN Raise("InvalidItemListOrderTypeException")
    ELSE IF check_required_args({kw.name, kw.creator})
    THEN Raise("MissingArgument")
    ELSE Formatted("format_mutation", "CreateItemList",
                   filter_none_args(create_itemlist_args(kw)))

\* The args dictionary of mutation_update_itemlist, before filtering.
update_itemlist_args(kw) ==
    LET args == [identifier |-> kw.identifier,
                 contributor |-> kw.contributor,
                 name |-> kw.name,
                 description |-> kw.description,
                 creator |-> kw.creator,
                 additionalType |-> _verify_additional_type(kw.additionaltype)]
    IN IF kw.itemlistorder /= None
       THEN [itemListOrder |-> StringConstant(kw.itemlistorder)] @@ args
       ELSE args

mutation_update_itemlist(kw) ==
    IF kw.itemlistorder /= None /\ ~IsItemListOrderType(kw.itemlistorder)
    THEN Raise("InvalidItemListOrderTypeException")
    ELSE IF check_required_args({kw.identifier})
    THEN Raise("MissingArgument")
    ELSE Formatted("format_mutation", "UpdateItemList",
                   filter_none_args(update_itemlist_args(kw)))

\* The args dictionary of mutation_create_listitem, before filtering.
create_listitem_args(kw) ==
    [contributor |-> kw.contributor,
     name |-> kw.name,
     creator |-> kw.creator,
     description |-> kw.description,
     itemUrl |-> kw.itemurl,
     position |-> kw.position]

\* mutation_create_listitem without the call of check_required_args.
mutation_create_listitem_unchecked(kw) ==
    Formatted("format_mutation", "CreateListItem",
              filter_none_args(create_listitem_args(kw)))

mutation_create_listitem(kw) ==
    IF check_required_args({kw.creator})
    THEN Raise("MissingArgument")
    ELSE Formatted("format_mutation", "CreateListItem",
                   filter_none_args(create_listitem_args(kw)))

\* update_listitem_args with the creator stored under the key name as well.
update_listitem_args_swapped(kw) ==
    [identifier |-> kw.identifier,
     creator |-> kw.creator,
     name |-> kw.creator,
     contributor |-> kw.contributor,
     description |-> kw.description,
     itemUrl |-> kw.itemurl,
     position |-> kw.position]

\* The args dictionary of mutation_update_listitem, before filtering.
update_listitem_args(kw) ==
    [identifier |-> kw.identifier,
     creator |-> kw.creator,
     name |-> kw.name,
     contributor |-> kw.contributor,
     description |-> kw.description,
     itemUrl |-> kw.itemurl,
     position |-> kw.position]

mutation_update_listitem(kw) ==
    Formatted("format_mutation", "UpdateListItem",
              filter_none_args(update_listitem_args(kw)))

mutation_add_listitem_nextitem(kw) ==
    IF check_required_args({kw.listitem_id, kw.nextitem_id})
    THEN Raise("MissingArgument")
    ELSE Linked("format_link_mutation", "MergeListItemNextItem",
                kw.listitem_id, kw.nextitem_id)

mutation_remove_listitem_nextitem(kw) ==
    IF check_required_args({kw.listitem_id, kw.nextitem_id})
    THEN Raise("MissingArgument")
    ELSE Linked("format_link_mutation", "RemoveListItemNextItem",
                kw.listitem_id, kw.nextitem_id)

mutation_add_listitem_item(kw) ==
    IF check_required_args({kw.listitem_id, kw.item_id})
    THEN Raise("MissingArgument")
    ELSE Linked("format_link_mutation", "MergeListItemItem",
                kw.listitem_id, kw.item_id)

mutation_remove_listitem_item(kw) ==
    IF check_required_args({kw.listitem_id, kw.item_id})
    THEN Raise("MissingArgument")
    ELSE Linked("format_link_mutation", "RemoveListItemItem",
                kw.listitem_id, kw.item_id)

mutation_add_itemlist_itemlist_element(kw) ==
    IF check_required_args({kw.itemlist_id, kw.element_id})
    THEN Raise("MissingArgument")
    ELSE Linked("format_link_mutation", "MergeItemListItemListElement",
                kw.itemlist_id, kw.element_id)

mutation_remove_itemlist_itemlist_element(kw) ==
    IF check_required_args({kw.itemlist_id, kw.element_id})
    THEN Raise("MissingArgument")
    ELSE Linked("format_link_mutation", "RemoveItemListItemListElement",
                kw.itemlist_id, kw.element_id)

\* str(n) for a natural number: its decimal digits.
Digit(d) == <<"0", "1", "2", "3", "4", "5", "6", "7", "8", "9">>[d + 1]

RECURSIVE Decimal(_)
Decimal(n) == IF n < 10 THEN <<Digit(n)>>
              ELSE Decimal(n \div 10) \o <<Digit(n % 10)>>

\* "<prefix>{}".format(pos): the prefix followed by the digits of pos.
FormatAlias(prefix, pos) == <<prefix>> \o Decimal(pos)

\* mutation_sequence_create_listitem: one CreateListItem triple per list
\* item; description[pos] raises TypeError when description is None and
\* IndexError when it is shorter than listitems, enumerate(None) raises
\* TypeError.
mutation_sequence_create_listitem(kw) ==
    IF kw.listitems = None THEN Raise("TypeError")
    ELSE LET n == Len(kw.listitems.items)
             mutationname == "CreateListItem"
         IN IF n = 0 THEN Sequenced("format_sequence_mutation", <<>>)
            ELSE IF kw.description = None THEN Raise("TypeError")
            ELSE IF Len(kw.description.items) < n THEN Raise("IndexError")
            ELSE Sequenced("format_sequence_mutation",
                     [i \in 1..n |->
                         <<FormatAlias("ListItemAlias", i - 1),
                           mutationname,
                           [contributor |-> kw.contributor,
                            name |-> kw.name,
                            creator |-> kw.creator,
                            description |-> kw.description.items[i],
                            position |-> IntV(i - 1)]>>])

\* mutation_sequence_add_itemlist_itemlist_element numbering its aliases
\* from 1 (enumerate(element_ids, 1)).
mutation_sequence_add_itemlist_itemlist_element_from_one(kw) ==
    IF check_required_args({kw.itemlist_id, kw.element_ids})
    THEN Raise("MissingArgument")
    ELSE LET mutationname == "MergeItemListItemListElement"
             element_ids == kw.element_ids.items
             mutation_list ==
                 [i \in 1..Len(element_ids) |->
                     <<FormatAlias("MergeItemListItemListElementAlias", i),
                       mutationname,
                       <<kw.itemlist_id, element_ids[i]>> >>]
         IN Sequenced("format_sequence_link_mutation", mutation_list)

mutation_sequence_add_itemlist_itemlist_element(kw) ==
    IF check_required_args({kw.itemlist_id, kw.element_ids})
    THEN Raise("MissingArgument")
    ELSE LET mutationname == "MergeItemListItemListElement"
             element_ids == kw.element_ids.items
             mutation_list ==
                 [i \in 1..Len(element_ids) |->
                     <<FormatAlias("MergeItemListItemListElementAlias", i - 1),
                       mutationname,
                       <<kw.itemlist_id, element_ids[i]>> >>]
         IN Sequenced("format_sequence_link_mutation", mutation_list)

\* mutation_sequence_add_listitem_item pairing the two lists with
\* zip(listitem_ids, item_ids), which stops at the end of the shorter list.
mutation_sequence_add_listitem_item_zipped(kw) ==
    IF check_required_args({kw.listitem_ids, kw.item_ids})
    THEN Raise("MissingArgument")
    ELSE LET mutationname == "MergeListItemItem"
             listitem_ids == kw.listitem_ids.items
             item_ids == kw.item_ids.items
             n == IF Len(item_ids) < Len(listitem_ids)
                  THEN Len(item_ids) ELSE Len(listitem_ids)
         IN Sequenced("format_sequence_link_mutation",
                [i \in 1..n |->
                    <<FormatAlias("MergeListItemItemAlias", i - 1),
                      mutationname,
                      <<listitem_ids[i], item_ids[i]>> >>])

\* mutation_sequence_add_listitem_item: the i-th list item is paired with
\* the i-th item; item_ids[pos] raises IndexError when item_ids is the
\* shorter list.
mutation_sequence_add_listitem_item(kw) ==
    IF check_required_args({kw.listitem_ids, kw.item_ids})
    THEN Raise("MissingArgument")
    ELSE LET mutationname == "MergeListItemItem"
             listitem_ids == kw.listitem_ids.items
             item_ids == kw.item_ids.items
         IN IF Len(item_ids) < Len(listitem_ids) THEN Raise("IndexError")
            ELSE Sequenced("format_sequence_link_mutation",
                     [i \in 1..Len(listitem_ids) |->
                         <<FormatAlias("MergeListItemItemAlias", i - 1),
                           mutationname,
                           <<listitem_ids[i], item_ids[i]>> >>])

\* mutation_sequence_add_listitem_nextitem: while pos + 1 < len(listitem_ids)
\* one link from listitem_ids[pos] to listitem_ids[pos + 1].
mutation_sequence_add_listitem_nextitem(kw) ==
    IF check_required_args({kw.listitem_ids})
    THEN Raise("MissingArgument")
    ELSE LET mutationname == "MergeListItemNextItem"
             listitem_ids == kw.listitem_ids.items
         IN Sequenced("format_sequence_link_mutation",
                [i \in 1..(Len(listitem_ids) - 1) |->
                    <<FormatAlias("MergeListItemNextItemAlias", i - 1),
                      mutationname,
                      <<listitem_ids[i], listitem_ids[i + 1]>> >>])

(***************************************************************************)
(* trompace/queries/document.py                                            *)
(***************************************************************************)
\* A module-level document text returned as it is, no formatter involved.
Returned(text) == [kind |-> "document", formatter |-> "none", text |-> text]

\* The positional arguments query_document hands to query_create after the
\* identifier and the template.
query_document_args(kw) ==
    [identifier |-> kw.identifier,
     document_name |-> kw.document_name,
     publisher |-> kw.publisher,
     contributor |-> kw.contributor,
     creator |-> kw.creator,
     source |-> kw.source,
     description |-> kw.description,
     language |-> kw.language]

\* query_document testing  identifier is not None  instead of the truth
\* value of identifier.
query_document_identifier_not_none(kw) ==
    IF Truthy(kw.language) /\ kw.language \notin SUPPORTED_LANGUAGES
    THEN Raise("UnsupportedLanguageException")
    ELSE IF kw.identifier /= None
    THEN Formatted("query_create", "QUERY_DIGITALDOCUMENT",
                   query_document_args(kw))
    ELSE Returned("QUERY_DIGITALDOCUMENT_ALL")

query_document(kw) ==
    IF Truthy(kw.language) /\ kw.language \notin SUPPORTED_LANGUAGES
    THEN Raise("UnsupportedLanguageException")
    ELSE IF Truthy(kw.identifier)
    THEN Formatted("query_create", "QUERY_DIGITALDOCUMENT",
                   query_document_args(kw))
    ELSE Returned("QUERY_DIGITALDOCUMENT_ALL")

(***************************************************************************)
(* mutations/work.py                                                       *)
(***************************************************************************)
\* str.format of a value into a "{}" slot of a template: the text of the
\* value; None prints as the text None.
format_value(v) == IF v = None THEN Str(<<"N", "o", "n", "e">>) ELSE v

\* get_query_add_composition_author with the two slots filled the other
\* way round.
get_query_add_composition_author_reversed(kw) ==
    Linked("str.format", "AddCreativeWorkInterfaceLegalPerson",
           format_value(kw.composer_id), format_value(kw.composition_id))

\* ADD_COMPOSITION_AUTHOR: composition_id fills the from slot, composer_id
\* the to slot.
get_query_add_composition_author(kw) ==
    Linked("str.format", "AddCreativeWorkInterfaceLegalPerson",
           format_value(kw.composition_id), format_value(kw.composer_id))

get_query_remove_composition_author(kw) ==
    Linked("str.format", "RemoveCreativeWorkInterfaceLegalPerson",
           format_value(kw.composition_id), format_value(kw.composer_id))

\* A dict of the caller: a mapping from its keys to its values.
Dict(entries) == [t |-> "dict", entries |-> entries]

\* The keys _transform_data_create_composition reads with composition[...];
\* a key that is not there raises KeyError.
CompositionKeys ==
    {"Title", "Creator", "Contributor", "Source", "Subject", "Language"}

\* "Composition {} by {}".format(title, name)
DefaultDescription(title, name) ==
    Str(<<"C", "o", "m", "p", "o", "s", "i", "t", "i", "o", "n", " ">>
        \o format_value(title).s \o <<" ", "b", "y", " ">>
        \o format_value(name).s)

\* _transform_data_create_composition: the args dictionary, or the KeyError
\* of a key that the composition lacks.
_transform_data_create_composition(composition) ==
    LET c == composition.entries
    IN IF \/ ~(CompositionKeys \subseteq DOMAIN c)
          \/ "Name" \notin DOMAIN c.Creator.entries
       THEN Raise("KeyError")
       ELSE LET desc == IF "Description" \in DOMAIN c
                        THEN c.Description
                        ELSE DefaultDescription(c.Title, c.Creator.entries.Name)
            IN [kind |-> "args",
                args |-> [title |-> c.Title,
                          name |-> c.Title,
                          contributor |-> c.Contributor,
                          creator |-> c.Creator.entries.Name,
                          description |-> desc,
                          source |-> c.Source,
                          subject |-> c.Subject,
                          format |-> Str(<<"t", "e", "x", "t", "/", "h", "t",
                                           "m", "l">>),
                          language |-> StringConstant(c.Language)]]

\* transform_data_update_composition: the args of the helper with the
\* identifier added, handed to make_parameters and UPDATE_MUSIC_COMPOSITION.
transform_data_update_composition(kw) ==
    LET created == _transform_data_create_composition(kw.composition)
    IN IF Raised(created) THEN created
       ELSE Formatted("make_parameters", "UpdateMusicComposition",
                      [identifier |-> kw.identifier] @@ created.args)

(***************************************************************************)
(* The calls explored: for every function, the bound parameters drawn from *)
(* small sets of values.                                                   *)
(***************************************************************************)
Text == Str(<<"a">>)
Empty == Str(<<>>)

\* Language arguments: the supported codes, an upper-case spelling, a mixed
\* spelling, an unknown code and the empty string.
LanguageInputs ==
    SUPPORTED_LANGUAGES \cup
    { Str(<<"E", "N">>), Str(<<"F", "r">>), Str(<<"x", "x">>), Empty }

\* MIME type arguments: with and without "/", and the empty string.
MimeInputs == { Str(<<"a", "/", "b">>), Str(<<"a", "b">>), Empty }

DateInputs == { Str(<<"2", "0", "2", "0">>), Empty }

OrderInputs ==
    ItemListOrderType \cup
    { Str(<<"I", "t", "e", "m", "L", "i", "s", "t", "U", "n", "o", "r", "d",
            "e", "r", "e", "d">>) }

AdditionalTypeInputs == { Text, List(<<Text>>), List(<<Text, Text>>) }

PositionInputs == { IntV(0), IntV(1) }

\* An identifier or required argument that is missing or empty.
Defects == { None, Empty }

Identifiers == { Str(<<"i">>), Str(<<"j">>) }

\* A parameter and the set its value is drawn from.
P(name, values) == <<name, values>>

NoArgs == [p \in {} |-> None]

\* All bindings of the first n parameters of doms, each within its set.
RECURSIVE ProductUpTo(_, _)
ProductUpTo(doms, n) ==
    IF n = 0 THEN { NoArgs }
    ELSE { (doms[n][1] :> v) @@ f : v \in doms[n][2], f \in ProductUpTo(doms, n - 1) }

Product(doms) == ProductUpTo(doms, Len(doms))

\* The bindings of the first n parameters of doms that are dflt everywhere
\* but on at most k parameters, where the value is drawn from its set.
RECURSIVE BoundedUpTo(_, _, _, _)
BoundedUpTo(doms, n, dflt, k) ==
    IF n = 0 THEN { NoArgs }
    ELSE { (doms[n][1] :> dflt) @@ f : f \in BoundedUpTo(doms, n - 1, dflt, k) }
         \cup
         (IF k = 0 THEN {}
          ELSE { (doms[n][1] :> v) @@ f :
                   v \in doms[n][2], f \in BoundedUpTo(doms, n - 1, dflt, k - 1) })

\* Optional parameters: None unless supplied, at most MaxSupplied supplied.
Optionals(doms) == BoundedUpTo(doms, Len(doms), None, MaxSupplied)

\* Required text parameters: supplied, but for at most MaxMissing of them.
Requireds(params) ==
    BoundedUpTo([i \in DOMAIN params |-> P(params[i], Defects)], Len(params),
                Text, MaxMissing)

DefaultFormatin == Str(<<"h", "t", "m", "l", "/", "t", "e", "x", "t">>)
DefaultReturnItems == <<"identifier", "name">>

Called(fn, kw) == call = [fn |-> fn, kw |-> kw]

CreateApplicationCalls ==
    \E kw \in Product(<<P("application_name", {Text}),
                        P("contributor", {Text}),
                        P("creator", {Text}),
                        P("source", {Text}),
                        P("subject", {Text}),
                        P("language", LanguageInputs \cup {None}),
                        P("description", {None, Empty, Text}),
                        P("formatin", MimeInputs \cup {DefaultFormatin}),
                        P("identifier", Defects \cup {Text})>>) :
        Called("mutation_create_application", kw)

EntryPointApplicationCalls ==
    \E a \in Defects \cup Identifiers, b \in Defects \cup Identifiers :
        Called("mutation_add_entrypoint_application",
               [application_id |-> a, entrypoint_id |-> b])

CreateMediaObjectCalls ==
    \E req \in Requireds(<<"title", "contributor", "creator", "source">>),
       format_ \in MimeInputs \cup {None},
       opt \in Optionals(<<P("name", {Text}),
                           P("description", {Text}),
                           P("date", DateInputs),
                           P("encodingformat", MimeInputs),
                           P("embedurl", {Text}),
                           P("url", {Text}),
                           P("contenturl", {Text}),
                           P("language", LanguageInputs),
                           P("inlanguage", {Text}),
                           P("license", {Text})>>) :
        Called("mutation_create_media_object",
               req @@ ("format_" :> format_) @@ opt)

UpdateMediaObjectCalls ==
    \E identifier \in Defects \cup {Text},
       opt \in Optionals(<<P("name", {Text}),
                           P("title", {Text}),
                           P("description", {Text}),
                           P("date", DateInputs),
                           P("creator", {Text}),
                           P("contributor", {Text}),
                           P("format_", MimeInputs),
                           P("encodingformat", MimeInputs),
                           P("source", {Text}),
                           P("license", {Text}),
                           P("subject", {Text}),
                           P("contenturl", {Text}),
                           P("language", LanguageInputs),
                           P("inlanguage", {Text})>>) :
        Called("mutation_update_media_object",
               ("identifier" :> identifier) @@ opt)

MediaObjectLinkCalls ==
    \E a \in Defects \cup Identifiers, b \in Defects \cup Identifiers :
        \/ \E fn \in {"mutation_merge_media_object_work_example",
                      "mutation_remove_media_object_work_example"} :
              Called(fn, [media_object_identifier |-> a, work_identifier |-> b])
        \/ \E fn \in {"mutation_merge_media_object_encoding",
                      "mutation_remove_media_object_encoding"} :
              Called(fn, [media_object_identifier_1 |-> a,
                          media_object_identifier_2 |-> b])

QueryMediaObjectCalls ==
    \E opt \in Optionals(<<P("identifier", {Text, Empty}),
                           P("creator", {Text}),
                           P("contributor", {Text}),
                           P("encodingFormat", MimeInputs),
                           P("source", {Text}),
                           P("contentUrl", {Text}),
                           P("inLanguage", LanguageInputs)>>) :
        Called("query_mediaobject",
               ("return_items_list" :> DefaultReturnItems) @@ opt)

CreateItemListCalls ==
    \E req \in Requireds(<<"name", "creator">>),
       itemlistorder \in OrderInputs \cup {None},
       opt \in Optionals(<<P("description", {Text}),
                           P("contributor", {Text}),
                           P("additionaltype", AdditionalTypeInputs)>>) :
        Called("mutation_create_itemlist",
               req @@ ("itemlistorder" :> itemlistorder) @@ opt)

UpdateItemListCalls ==
    \E identifier \in Defects \cup {Text},
       opt \in Optionals(<<P("name", {Text, Empty}),
                           P("creator", {Text}),
                           P("itemlistorder", OrderInputs),
                           P("description", {Text}),
                           P("contributor", {Text}),
                           P("additionaltype", AdditionalTypeInputs)>>) :
        Called("mutation_update_itemlist", ("identifier" :> identifier) @@ opt)

CreateListItemCalls ==
    \E req \in Requireds(<<"creator">>),
       opt \in Optionals(<<P("name", {Text, Empty}),
                           P("contributor", {Text}),
                           P("description", {Text}),
                           P("itemurl", {Text}),
                           P("position", PositionInputs)>>) :
        Called("mutation_create_listitem", req @@ opt)

UpdateListItemCalls ==
    \E identifier \in Defects \cup {Text},
       opt \in Optionals(<<P("creator", {Text}),
                           P("name", {Text, Empty}),
                           P("contributor", {Text}),
                           P("description", {Text}),
                           P("itemurl", {Text}),
                           P("position", PositionInputs)>>) :
        Called("mutation_update_listitem", ("identifier" :> identifier) @@ opt)

ItemListLinkCalls ==
    \E a \in Defects \cup Identifiers, b \in Defects \cup Identifiers :
        \/ \E fn \in {"mutation_add_listitem_nextitem",
                      "mutation_remove_listitem_nextitem"} :
              Called(fn, [listitem_id |-> a, nextitem_id |-> b])
        \/ \E fn \in {"mutation_add_listitem_item",
                      "mutation_remove_listitem_item"} :
              Called(fn, [listitem_id |-> a, item_id |-> b])
        \/ \E fn \in {"mutation_add_itemlist_itemlist_element",
                      "mutation_remove_itemlist_itemlist_element"} :
              Called(fn, [itemlist_id |-> a, element_id |-> b])

\* Lists of identifiers of length 0..MaxIds; an element may itself be empty.
IdLists ==
    { List(l) : l \in UNION { [1..n -> Identifiers \cup {Empty}] : n \in 0..MaxIds } }

SequenceAddElementCalls ==
    \E itemlist_id \in Defects \cup Identifiers, element_ids \in IdLists \cup {None} :
        Called("mutation_sequence_add_itemlist_itemlist_element",
               [itemlist_id |-> itemlist_id, element_ids |-> element_ids])

(***************************************************************************)
CompositionAuthorCalls ==
    \E a \in Defects \cup Identifiers, b \in Defects \cup Identifiers :
        \E fn \in {"get_query_add_composition_author",
                   "get_query_remove_composition_author"} :
            Called(fn, [composition_id |-> a, composer_id |-> b])
QueryDocumentCalls ==
    \E identifier \in Defects \cup {Text},
       language \in LanguageInputs \cup {None},
       opt \in Optionals(<<P("document_name", {Text}),
                           P("publisher", {Text}),
                           P("contributor", {Text}),
                           P("creator", {Text}),
                           P("source", {Text}),
                           P("description", {Text})>>) :
        Called("query_document",
               ("identifier" :> identifier) @@ ("language" :> language) @@ opt)

\* Compositions of a data file: every key present, or one of them absent;
\* with and without a Description.
Compositions ==
    LET full(language) ==
            [Title |-> Text, Creator |-> Dict([Name |-> Text]),
             Contributor |-> Text, Source |-> Text, Subject |-> Text,
             Language |-> language]
        without(c, k) == [x \in DOMAIN c \ {k} |-> c[x]]
        keyed == { full(l) : l \in LanguageInputs }
                 \cup { without(full(l), k) :
                          l \in {Str(<<"e", "n">>), Str(<<"x", "x">>)},
                          k \in CompositionKeys }
                 \cup { [full(Str(<<"e", "n">>)) EXCEPT
                            !.Creator = Dict(NoArgs)] }
    IN { Dict(c) : c \in keyed }
       \cup { Dict([Description |-> Text] @@ c) : c \in keyed }

UpdateCompositionCalls ==
    \E identifier \in Defects \cup {Text}, composition \in Compositions :
        Called("transform_data_update_composition",
               [identifier |-> identifier, composition |-> composition])

\* Lists of n list items, n in 0..MaxIds.
ListItemLists == { List([i \in 1..n |-> Text]) : n \in 0..MaxIds }

\* Lists of n descriptions, the i-th (from 0) being the text d<i>.
DescriptionLists ==
    { List([i \in 1..n |-> Str(<<"d">> \o Decimal(i - 1))]) : n \in 0..MaxIds }

SequenceCreateListItemCalls ==
    \E listitems \in ListItemLists \cup {None},
       contributor \in Defects \cup {Text},
       creator \in {None, Text},
       name \in {None, Text},
       description \in DescriptionLists \cup {None} :
        Called("mutation_sequence_create_listitem",
               [listitems |-> listitems, contributor |-> contributor,
                creator |-> creator, name |-> name,
                description |-> description])

SequenceAddItemCalls ==
    \E listitem_ids \in IdLists \cup {None}, item_ids \in IdLists \cup {None} :
        Called("mutation_sequence_add_listitem_item",
               [listitem_ids |-> listitem_ids, item_ids |-> item_ids])

SequenceAddNextItemCalls ==
    \E listitem_ids \in IdLists \cup {None} :
        Called("mutation_sequence_add_listitem_nextitem",
               [listitem_ids |-> listitem_ids])

\* The module-level objects the functions read: the set of supported
\* languages and the list that is the default of return_items_list.
ModuleData ==
    [SUPPORTED_LANGUAGES |-> SUPPORTED_LANGUAGES,
     return_items_list |-> DefaultReturnItems]

\* No caller runs statement by statement, and no list is held by reference.
NoFrames == [c \in {} |-> Pending]
NoHeap == [r \in {} |-> <<>>]

(* The state machine: a call is chosen, then the function called runs to   *)
(* its end, raising or handing its arguments to a formatter.               *)
(***************************************************************************)
Init ==
    /\ outcome = Pending
    /\ frames = NoFrames
    /\ module_data = ModuleData
    /\ heap = NoHeap
    /\ \/ CreateApplicationCalls
       \/ EntryPointApplicationCalls
       \/ CreateMediaObjectCalls
       \/ UpdateMediaObjectCalls
       \/ MediaObjectLinkCalls
       \/ QueryMediaObjectCalls
       \/ CreateItemListCalls
       \/ UpdateItemListCalls
       \/ CreateListItemCalls
       \/ UpdateListItemCalls
       \/ ItemListLinkCalls
       \/ SequenceAddElementCalls
       \/ CompositionAuthorCalls
       \/ QueryDocumentCalls
       \/ UpdateCompositionCalls
       \/ SequenceCreateListItemCalls
       \/ SequenceAddItemCalls
       \/ SequenceAddNextItemCalls

CallCreateApplication ==
    /\ call.fn = "mutation_create_application"
    /\ outcome = Pending
    /\ outcome' = mutation_create_application(call.kw)
    /\ UNCHANGED <<call, frames, module_data, heap>>

CallAddEntryPointApplication ==
    /\ call.fn = "mutation_add_entrypoint_application"
    /\ outcome = Pending
    /\ outcome' = mutation_add_entrypoint_application(call.kw)
    /\ UNCHANGED <<call, frames, module_data, heap>>

CallCreateMediaObject ==
    /\ call.fn = "mutation_create_media_object"
    /\ outcome = Pending
    /\ outcome' = mutation_create_media_object(call.kw)
    /\ UNCHANGED <<call, frames, module_data, heap>>

CallUpdateMediaObject ==
    /\ call.fn = "mutation_update_media_object"
    /\ outcome = Pending
    /\ outcome' = mutation_update_media_object(call.kw)
    /\ UNCHANGED <<call, frames, module_data, heap>>

CallMergeMediaObjectWorkExample ==
    /\ call.fn = "mutation_merge_media_object_work_example"
    /\ outcome = Pending
    /\ outcome' = mutation_merge_media_object_work_example(call.kw)
    /\ UNCHANGED <<call, frames, module_data, heap>>

CallRemoveMediaObjectWorkExample ==
    /\ call.fn = "mutation_remove_media_object_work_example"
    /\ outcome = Pending
    /\ outcome' = mutation_remove_media_object_work_example(call.kw)
    /\ UNCHANGED <<call, frames, module_data, heap>>

CallMergeMediaObjectEncoding ==
    /\ call.fn = "mutation_merge_media_object_encoding"
    /\ outcome = Pending
    /\ outcome' = mutation_merge_media_object_encoding(call.kw)
    /\ UNCHANGED <<call, frames, module_data, heap>>

CallRemoveMediaObjectEncoding ==
    /\ call.fn = "mutation_remove_media_object_encoding"
    /\ outcome = Pending
    /\ outcome' = mutation_remove_media_object_encoding(call.kw)
    /\ UNCHANGED <<call, frames, module_data, heap>>

CallQueryMediaObject ==
    /\ call.fn = "query_mediaobject"
    /\ outcome = Pending
    /\ outcome' = query_mediaobject(call.kw)
    /\ UNCHANGED <<call, frames, module_data, heap>>

CallCreateItemList ==
    /\ call.fn = "mutation_create_itemlist"
    /\ outcome = Pending
    /\ outcome' = mutation_create_itemlist(call.kw)
    /\ UNCHANGED <<call, frames, module_data, heap>>

CallUpdateItemList ==
    /\ call.fn = "mutation_update_itemlist"
    /\ outcome = Pending
    /\ outcome' = mutation_update_itemlist(call.kw)
    /\ UNCHANGED <<call, frames, module_data, heap>>

CallCreateListItem ==
    /\ call.fn = "mutation_create_listitem"
    /\ outcome = Pending
    /\ outcome' = mutation_create_listitem(call.kw)
    /\ UNCHANGED <<call, frames, module_data, heap>>

CallUpdateListItem ==
    /\ call.fn = "mutation_update_listitem"
    /\ outcome = Pending
    /\ outcome' = mutation_update_listitem(call.kw)
    /\ UNCHANGED <<call, frames, module_data, heap>>

CallAddListItemNextItem ==
    /\ call.fn = "mutation_add_listitem_nextitem"
    /\ outcome = Pending
    /\ outcome' = mutation_add_listitem_nextitem(call.kw)
    /\ UNCHANGED <<call, frames, module_data, heap>>

CallRemoveListItemNextItem ==
    /\ call.fn = "mutation_remove_listitem_nextitem"
    /\ outcome = Pending
    /\ outcome' = mutation_remove_listitem_nextitem(call.kw)
    /\ UNCHANGED <<call, frames, module_data, heap>>

CallAddListItemItem ==
    /\ call.fn = "mutation_add_listitem_item"
    /\ outcome = Pending
    /\ outcome' = mutation_add_listitem_item(call.kw)
    /\ UNCHANGED <<call, frames, module_data, heap>>

CallRemoveListItemItem ==
    /\ call.fn = "mutation_remove_listitem_item"
    /\ outcome = Pending
    /\ outcome' = mutation_remove_listitem_item(call.kw)
    /\ UNCHANGED <<call, frames, module_data, heap>>

CallAddItemListElement ==
    /\ call.fn = "mutation_add_itemlist_itemlist_element"
    /\ outcome = Pending
    /\ outcome' = mutation_add_itemlist_itemlist_element(call.kw)
    /\ UNCHANGED <<call, frames, module_data, heap>>

CallRemoveItemListElement ==
    /\ call.fn = "mutation_remove_itemlist_itemlist_element"
    /\ outcome = Pending
    /\ outcome' = mutation_remove_itemlist_itemlist_element(call.kw)
    /\ UNCHANGED <<call, frames, module_data, heap>>

CallSequenceAddElement ==
    /\ call.fn = "mutation_sequence_add_itemlist_itemlist_element"
    /\ outcome = Pending
    /\ outcome' = mutation_sequence_add_itemlist_itemlist_element(call.kw)
    /\ UNCHANGED <<call, frames, module_data, heap>>

CallAddCompositionAuthor ==
    /\ call.fn = "get_query_add_composition_author"
    /\ outcome = Pending
    /\ outcome' = get_query_add_composition_author(call.kw)
    /\ UNCHANGED <<call, frames, module_data, heap>>

CallRemoveCompositionAuthor ==
    /\ call.fn = "get_query_remove_composition_author"
    /\ outcome = Pending
    /\ outcome' = get_query_remove_composition_author(call.kw)
    /\ UNCHANGED <<call, frames, module_data, heap>>

CallQueryDocument ==
    /\ call.fn = "query_document"
    /\ outcome = Pending
    /\ outcome' = query_document(call.kw)
    /\ UNCHANGED <<call, frames, module_data, heap>>

CallTransformDataUpdateComposition ==
    /\ call.fn = "transform_data_update_composition"
    /\ outcome = Pending
    /\ outcome' = transform_data_update_composition(call.kw)
    /\ UNCHANGED <<call, frames, module_data, heap>>

CallSequenceCreateListItem ==
    /\ call.fn = "mutation_sequence_create_listitem"
    /\ outcome = Pending
    /\ outcome' = mutation_sequence_create_listitem(call.kw)
    /\ UNCHANGED <<call, frames, module_data, heap>>

CallSequenceAddItem ==
    /\ call.fn = "mutation_sequence_add_listitem_item"
    /\ outcome = Pending
    /\ outcome' = mutation_sequence_add_listitem_item(call.kw)
    /\ UNCHANGED <<call, frames, module_data, heap>>

CallSequenceAddNextItem ==
    /\ call.fn = "mutation_sequence_add_listitem_nextitem"
    /\ outcome = Pending
    /\ outcome' = mutation_sequence_add_listitem_nextitem(call.kw)
    /\ UNCHANGED <<call, frames, module_data, heap>>

Next ==
    \/ CallCreateApplication
    \/ CallAddEntryPointApplication
    \/ CallCreateMediaObject
    \/ CallUpdateMediaObject
    \/ CallMergeMediaObjectWorkExample
    \/ CallRemoveMediaObjectWorkExample
    \/ CallMergeMediaObjectEncoding
    \/ CallRemoveMediaObjectEncoding
    \/ CallQueryMediaObject
    \/ CallCreateItemList
    \/ CallUpdateItemList
    \/ CallCreateListItem
    \/ CallUpdateListItem
    \/ CallAddListItemNextItem
    \/ CallRemoveListItemNextItem
    \/ CallAddListItemItem
    \/ CallRemoveListItemItem
    \/ CallAddItemListElement
    \/ CallRemoveItemListElement
    \/ CallSequenceAddElement
    \/ CallAddCompositionAuthor
    \/ CallRemoveCompositionAuthor
    \/ CallQueryDocument
    \/ CallTransformDataUpdateComposition
    \/ CallSequenceCreateListItem
    \/ CallSequenceAddItem
    \/ CallSequenceAddNextItem

Spec == Init /\ [][Next]_vars

(***************************************************************************)
(* Statement by statement.  A frame is one call in progress: the function, *)
(* its bound parameters, the number of the statement to run next (0 when   *)
(* the call has ended), its local variables, the document the formatter    *)
(* returned (Pending while the formatter was not invoked) and the outcome. *)
(***************************************************************************)
Callers == {"caller1", "caller2"}

\* A parameter the caller left out, so that its default object is used.
Omitted == [t |-> "omitted"]

\* A list passed by reference: the argument names an object of the heap.
Ref(r) == [t |-> "ref", ref |-> r]

\* The value an argument denotes: the list a reference points to.
Deref(v, hp) == IF v.t = "ref" THEN List(hp[v.ref]) ELSE v

Frame(fn, kw) ==
    [fn |-> fn, kw |-> kw, pc |-> 1, args |-> NoArgs, mutation_list |-> <<>>,
     pos |-> 0, document |-> Pending, outcome |-> Pending]

\* if <fails>: raise <exc>
RaiseIf(f, fails, exc) ==
    IF fails THEN [f EXCEPT !.outcome = Raise(exc), !.pc = 0]
    ELSE [f EXCEPT !.pc = @ + 1]

\* if <fails>: raise <exc>(<value>)
RaiseWithIf(f, fails, exc, value) ==
    IF fails THEN [f EXCEPT !.outcome = RaiseWith(exc, value), !.pc = 0]
    ELSE [f EXCEPT !.pc = @ + 1]

\* args = <value>
Assign(f, args) == [f EXCEPT !.args = args, !.pc = @ + 1]

\* return <formatter>(...): the formatter is invoked and what it returns is
\* returned.
ReturnFormatted(f, doc) ==
    [f EXCEPT !.document = doc, !.outcome = doc, !.pc = 0]

\* return <a module-level text>
Return(f, doc) == [f EXCEPT !.outcome = doc, !.pc = 0]

\* mutation_create_application building and formatting its document first
\* and validating language and formatin afterwards.
mutation_create_application_step_format_first(f, data, hp) ==
    LET kw == f.kw
    IN CASE f.pc = 1 -> Assign(f, create_application_args(kw))
         [] f.pc = 2 ->
              [f EXCEPT !.document = Formatted("mutation_create",
                                               "CreateSoftwareApplication",
                                               f.args),
                        !.pc = @ + 1]
         [] f.pc = 3 ->
              RaiseIf(f, kw.language \notin data.SUPPORTED_LANGUAGES,
                      "UnsupportedLanguageException")
         [] f.pc = 4 ->
              RaiseWithIf(f, ~Contains(kw.formatin, "/"),
                          "NotAMimeTypeException", kw.formatin)
         [] f.pc = 5 -> Return(f, f.document)

mutation_create_application_step(f, data, hp) ==
    LET kw == f.kw
    IN CASE f.pc = 1 ->
              RaiseIf(f, kw.language \notin data.SUPPORTED_LANGUAGES,
                      "UnsupportedLanguageException")
         [] f.pc = 2 ->
              RaiseWithIf(f, ~Contains(kw.formatin, "/"),
                          "NotAMimeTypeException", kw.formatin)
         [] f.pc = 3 -> Assign(f, create_application_args(kw))
         [] f.pc = 4 ->
              ReturnFormatted(f, Formatted("mutation_create",
                                           "CreateSoftwareApplication", f.args))

mutation_create_media_object_step(f, data, hp) ==
    LET kw == f.kw
    IN CASE f.pc = 1 ->
              RaiseIf(f, check_required_args({kw.title, kw.contributor,
                                              kw.creator, kw.source,
                                              kw.format_}),
                      "MissingArgument")
         [] f.pc = 2 ->
              RaiseIf(f, /\ kw.language /= None
                         /\ kw.language \notin data.SUPPORTED_LANGUAGES,
                      "UnsupportedLanguageException")
         [] f.pc = 3 ->
              RaiseWithIf(f, ~Contains(kw.format_, "/"),
                          "NotAMimeTypeException", kw.format_)
         [] f.pc = 4 ->
              RaiseWithIf(f, /\ kw.encodingformat /= None
                         /\ ~Contains(kw.encodingformat, "/"),
                      "NotAMimeTypeException", kw.encodingformat)
         [] f.pc = 5 -> Assign(f, create_media_object_args(kw))
         [] f.pc = 6 -> Assign(f, filter_none_args(f.args))
         [] f.pc = 7 ->
              ReturnFormatted(f, Formatted("format_mutation",
                                           "CreateMediaObject", f.args))

mutation_update_media_object_step(f, data, hp) ==
    LET kw == f.kw
    IN CASE f.pc = 1 ->
              RaiseWithIf(f, kw.format_ /= None /\ ~Contains(kw.format_, "/"),
                      "NotAMimeTypeException", kw.format_)
         [] f.pc = 2 ->
              RaiseWithIf(f, /\ kw.encodingformat /= None
                         /\ ~Contains(kw.encodingformat, "/"),
                      "NotAMimeTypeException", kw.encodingformat)
         [] f.pc = 3 ->
              RaiseIf(f, /\ kw.language /= None
                         /\ kw.language \notin data.SUPPORTED_LANGUAGES,
                      "UnsupportedLanguageException")
         [] f.pc = 4 -> Assign(f, update_media_object_args(kw))
         [] f.pc = 5 -> Assign(f, filter_none_args(f.args))
         [] f.pc = 6 ->
              ReturnFormatted(f, Formatted("format_mutation",
                                           "UpdateMediaObject", f.args))

mutation_create_itemlist_step(f, data, hp) ==
    LET kw == f.kw
    IN CASE f.pc = 1 ->
              RaiseIf(f, ~IsItemListOrderType(kw.itemlistorder),
                      "InvalidItemListOrderTypeException")
         [] f.pc = 2 ->
              RaiseIf(f, check_required_args({kw.name, kw.creator}),
                      "MissingArgument")
         [] f.pc = 3 -> Assign(f, create_itemlist_args(kw))
         [] f.pc = 4 -> Assign(f, filter_none_args(f.args))
         [] f.pc = 5 ->
              ReturnFormatted(f, Formatted("format_mutation", "CreateItemList",
                                           f.args))

mutation_update_itemlist_step(f, data, hp) ==
    LET kw == f.kw
    IN CASE f.pc = 1 ->
              RaiseIf(f, /\ kw.itemlistorder /= None
                         /\ ~IsItemListOrderType(kw.itemlistorder),
                      "InvalidItemListOrderTypeException")
         [] f.pc = 2 ->
              RaiseIf(f, check_required_args({kw.identifier}),
                      "MissingArgument")
         [] f.pc = 3 -> Assign(f, update_itemlist_args(kw))
         [] f.pc = 4 -> Assign(f, filter_none_args(f.args))
         [] f.pc = 5 ->
              ReturnFormatted(f, Formatted("format_mutation", "UpdateItemList",
                                           f.args))

query_document_step(f, data, hp) ==
    LET kw == f.kw
    IN CASE f.pc = 1 ->
              RaiseIf(f, /\ Truthy(kw.language)
                         /\ kw.language \notin data.SUPPORTED_LANGUAGES,
                      "UnsupportedLanguageException")
         [] f.pc = 2 ->
              IF Truthy(kw.identifier)
              THEN ReturnFormatted(f, Formatted("query_create",
                                                "QUERY_DIGITALDOCUMENT",
                                                query_document_args(kw)))
              ELSE Return(f, Returned("QUERY_DIGITALDOCUMENT_ALL"))

\* return_items_list is the default list of the module when the caller
\* leaves the parameter out.
query_mediaobject_step(f, data, hp) ==
    LET kw == f.kw
        return_items_list == IF kw.return_items_list = Omitted
                             THEN data.return_items_list
                             ELSE kw.return_items_list
    IN CASE f.pc = 1 ->
              RaiseWithIf(f, /\ Truthy(kw.encodingFormat)
                         /\ ~Contains(kw.encodingFormat, "/"),
                      "NotAMimeTypeException", kw.encodingFormat)
         [] f.pc = 2 -> Assign(f, query_mediaobject_args(kw))
         [] f.pc = 3 -> Assign(f, filter_none_args(f.args))
         [] f.pc = 4 ->
              ReturnFormatted(f, Queried("MediaObject", f.args,
                                         return_items_list))

\* for pos, _ in enumerate(listitem_ids): one pass of the loop per step.
mutation_sequence_add_listitem_item_step(f, data, hp) ==
    LET kw == f.kw
        listitem_ids == Deref(kw.listitem_ids, hp)
        item_ids == Deref(kw.item_ids, hp)
    IN CASE f.pc = 1 ->
              RaiseIf(f, check_required_args({listitem_ids, item_ids}),
                      "MissingArgument")
         [] f.pc = 2 -> [f EXCEPT !.mutation_list = <<>>, !.pos = 0, !.pc = 3]
         [] f.pc = 3 ->
              IF f.pos < Len(listitem_ids.items)
              THEN IF f.pos >= Len(item_ids.items)
                   THEN [f EXCEPT !.outcome = Raise("IndexError"), !.pc = 0]
                   ELSE [f EXCEPT
                           !.mutation_list =
                               Append(@, <<FormatAlias("MergeListItemItemAlias",
                                                       f.pos),
                                           "MergeListItemItem",
                                           <<listitem_ids.items[f.pos + 1],
                                             item_ids.items[f.pos + 1]>> >>),
                           !.pos = @ + 1]
              ELSE [f EXCEPT !.pc = 4]
         [] f.pc = 4 ->
              ReturnFormatted(f, Sequenced("format_sequence_link_mutation",
                                           f.mutation_list))

\* mutation_sequence_add_listitem_nextitem leaving pos as it is when the
\* next identifier repeats the current one.
mutation_sequence_add_listitem_nextitem_step_skipping(f, data, hp) ==
    LET kw == f.kw
        listitem_ids == Deref(kw.listitem_ids, hp)
    IN CASE f.pc = 1 ->
              RaiseIf(f, check_required_args({listitem_ids}),
                      "MissingArgument")
         [] f.pc = 2 -> [f EXCEPT !.mutation_list = <<>>, !.pos = 0, !.pc = 3]
         [] f.pc = 3 ->
              IF f.pos + 1 < Len(listitem_ids.items)
              THEN IF listitem_ids.items[f.pos + 1] =
                      listitem_ids.items[f.pos + 2]
                   THEN f
                   ELSE [f EXCEPT
                           !.mutation_list =
                               Append(@, <<FormatAlias(
                                               "MergeListItemNextItemAlias",
                                               f.pos),
                                           "MergeListItemNextItem",
                                           <<listitem_ids.items[f.pos + 1],
                                             listitem_ids.items[f.pos + 2]>> >>),
                           !.pos = @ + 1]
              ELSE [f EXCEPT !.pc = 4]
         [] f.pc = 4 ->
              ReturnFormatted(f, Sequenced("format_sequence_link_mutation",
                                           f.mutation_list))

\* while pos + 1 < len(listitem_ids): one pass of the loop per step.
mutation_sequence_add_listitem_nextitem_step(f, data, hp) ==
    LET kw == f.kw
        listitem_ids == Deref(kw.listitem_ids, hp)
    IN CASE f.pc = 1 ->
              RaiseIf(f, check_required_args({listitem_ids}),
                      "MissingArgument")
         [] f.pc = 2 -> [f EXCEPT !.mutation_list = <<>>, !.pos = 0, !.pc = 3]
         [] f.pc = 3 ->
              IF f.pos + 1 < Len(listitem_ids.items)
              THEN [f EXCEPT
                      !.mutation_list =
                          Append(@, <<FormatAlias("MergeListItemNextItemAlias",
                                                  f.pos),
                                      "MergeListItemNextItem",
                                      <<listitem_ids.items[f.pos + 1],
                                        listitem_ids.items[f.pos + 2]>> >>),
                      !.pos = @ + 1]
              ELSE [f EXCEPT !.pc = 4]
         [] f.pc = 4 ->
              ReturnFormatted(f, Sequenced("format_sequence_link_mutation",
                                           f.mutation_list))

\* The statement of frame f that runs next, run on the module data and heap
\* as they are now: the frame after it.
Statement(f, data, hp) ==
    CASE f.fn = "mutation_create_application" ->
            mutation_create_application_step(f, data, hp)
      [] f.fn = "mutation_create_media_object" ->
            mutation_create_media_object_step(f, data, hp)
      [] f.fn = "mutation_update_media_object" ->
            mutation_update_media_object_step(f, data, hp)
      [] f.fn = "mutation_create_itemlist" ->
            mutation_create_itemlist_step(f, data, hp)
      [] f.fn = "mutation_update_itemlist" ->
            mutation_update_itemlist_step(f, data, hp)
      [] f.fn = "query_document" -> query_document_step(f, data, hp)
      [] f.fn = "query_mediaobject" -> query_mediaobject_step(f, data, hp)
      [] f.fn = "mutation_sequence_add_listitem_item" ->
            mutation_sequence_add_listitem_item_step(f, data, hp)
      [] f.fn = "mutation_sequence_add_listitem_nextitem" ->
            mutation_sequence_add_listitem_nextitem_step(f, data, hp)

\* The lists of the callers after a statement of mutation_sequence_add_
\* listitem_item that takes the next item off the front of item_ids
\* (item_ids.pop(0)) instead of reading item_ids[pos].
lists_after_popping(f, hp) ==
    IF /\ f.fn = "mutation_sequence_add_listitem_item"
       /\ f.pc = 3
       /\ hp[f.kw.item_ids.ref] /= <<>>
    THEN [hp EXCEPT ![f.kw.item_ids.ref] = Tail(@)]
    ELSE hp

\* The lists of the callers after the next statement of frame f: the
\* functions read them with len(), enumerate() and subscripts and never
\* assign to, append to or remove from them.
lists_after(f, hp) == hp

\* The module-level objects after the next statement of frame f: the
\* functions test membership of SUPPORTED_LANGUAGES and hand the default
\* return_items_list to the formatter, and never assign to or update them.
module_data_after(f, data) == data

\* The calls run statement by statement: for each function one call that
\* passes every validation and calls that fail one of them.
ApplicationKw ==
    [application_name |-> Text, contributor |-> Text, creator |-> Text,
     source |-> Text, subject |-> Text, language |-> Str(<<"e", "n">>),
     description |-> None, formatin |-> DefaultFormatin, identifier |-> None]

CreateMediaObjectKw ==
    [title |-> Text, contributor |-> Text, creator |-> Text, source |-> Text,
     format_ |-> Str(<<"a", "/", "b">>), name |-> None, description |-> None,
     date |-> None, encodingformat |-> None, embedurl |-> None, url |-> None,
     contenturl |-> None, language |-> None, inlanguage |-> None,
     license |-> None]

UpdateMediaObjectKw ==
    [identifier |-> Text, name |-> None, title |-> None, description |-> None,
     date |-> None, creator |-> None, contributor |-> None, format_ |-> None,
     encodingformat |-> None, source |-> None, license |-> None,
     subject |-> None, contenturl |-> None, language |-> None,
     inlanguage |-> None]

CreateItemListKw ==
    [name |-> Text, creator |-> Text,
     itemlistorder |-> Member("ItemListUnordered"), description |-> None,
     contributor |-> None, additionaltype |-> None]

UpdateItemListKw ==
    [identifier |-> Text, name |-> None, creator |-> None,
     itemlistorder |-> None, description |-> None, contributor |-> None,
     additionaltype |-> None]

QueryDocumentKw ==
    [identifier |-> None, document_name |-> None, publisher |-> None,
     contributor |-> None, creator |-> None, source |-> None,
     description |-> None, language |-> None]

QueryMediaObjectKw ==
    [identifier |-> None, creator |-> None, contributor |-> None,
     encodingFormat |-> None, source |-> None, contentUrl |-> None,
     inLanguage |-> None, return_items_list |-> Omitted]

ListRefs == {"ids1", "ids2"}

StepCalls ==
    { [fn |-> "mutation_create_application",
       kw |-> [ApplicationKw EXCEPT !.language = l, !.formatin = m]] :
         l \in {Str(<<"e", "n">>), Str(<<"x", "x">>)},
         m \in {DefaultFormatin, Str(<<"a", "b">>)} }
    \cup
    { [fn |-> "mutation_create_media_object", kw |-> kw] :
         kw \in { CreateMediaObjectKw,
                  [CreateMediaObjectKw EXCEPT !.title = None],
                  [CreateMediaObjectKw EXCEPT !.language = Str(<<"x", "x">>)],
                  [CreateMediaObjectKw EXCEPT !.format_ = Str(<<"a", "b">>)],
                  [CreateMediaObjectKw EXCEPT
                      !.encodingformat = Str(<<"a", "b">>)] } }
    \cup
    { [fn |-> "mutation_update_media_object", kw |-> kw] :
         kw \in { [UpdateMediaObjectKw EXCEPT !.language = Str(<<"d", "e">>)],
                  [UpdateMediaObjectKw EXCEPT !.format_ = Str(<<"a", "b">>)],
                  [UpdateMediaObjectKw EXCEPT !.language = Str(<<"E", "N">>)] } }
    \cup
    { [fn |-> "mutation_create_itemlist", kw |-> kw] :
         kw \in { CreateItemListKw,
                  [CreateItemListKw EXCEPT !.itemlistorder = None],
                  [CreateItemListKw EXCEPT !.name = Empty] } }
    \cup
    { [fn |-> "mutation_update_itemlist", kw |-> kw] :
         kw \in { [UpdateItemListKw EXCEPT !.name = Text],
                  [UpdateItemListKw EXCEPT !.itemlistorder = Text],
                  [UpdateItemListKw EXCEPT !.identifier = None] } }
    \cup
    { [fn |-> "query_document",
       kw |-> [QueryDocumentKw EXCEPT !.identifier = i, !.language = l]] :
         i \in {None, Text}, l \in {Str(<<"f", "r">>), Str(<<"x", "x">>)} }
    \cup
    { [fn |-> "query_mediaobject",
       kw |-> [QueryMediaObjectKw EXCEPT !.encodingFormat = m]] :
         m \in {None, Str(<<"a", "b">>)} }
    \cup
    { [fn |-> "mutation_sequence_add_listitem_item",
       kw |-> [listitem_ids |-> Ref(a), item_ids |-> Ref(b)]] :
         a \in ListRefs, b \in ListRefs }
    \cup
    { [fn |-> "mutation_sequence_add_listitem_nextitem",
       kw |-> [listitem_ids |-> Ref(a)]] : a \in ListRefs }

\* The identifier at place i (from 1) of a list of a caller: i, j, j, i, ...
IdAt(i) == IF i % 3 = 1 THEN Str(<<"i">>) ELSE Str(<<"j">>)

\* The lists the callers hold: ids1 of any length up to MaxIds, ids2 of one
\* or two identifiers.
Heaps ==
    { [ids1 |-> [i \in 1..n |-> IdAt(i)], ids2 |-> [i \in 1..m |-> IdAt(i + 1)]] :
        n \in 0..MaxIds, m \in 1..2 }

NoCall == [fn |-> "none", kw |-> NoArgs]

InitInterleaved ==
    /\ call = NoCall
    /\ outcome = Pending
    /\ module_data = ModuleData
    /\ heap \in Heaps
    /\ \E calls \in [Callers -> StepCalls] :
          frames = [c \in Callers |-> Frame(calls[c].fn, calls[c].kw)]

\* Caller c runs the next statement of its call, whatever the other callers
\* are in the middle of.
Running(c) ==
    /\ frames[c].pc /= 0
    /\ frames' = [frames EXCEPT ![c] = Statement(@, module_data, heap)]
    /\ module_data' = module_data_after(frames[c], module_data)
    /\ heap' = lists_after(frames[c], heap)
    /\ UNCHANGED <<call, outcome>>

StepCreateApplication ==
    \E c \in Callers :
        /\ frames[c].fn = "mutation_create_application"
        /\ Running(c)

StepCreateMediaObject ==
    \E c \in Callers :
        /\ frames[c].fn = "mutation_create_media_object"
        /\ Running(c)

StepUpdateMediaObject ==
    \E c \in Callers :
        /\ frames[c].fn = "mutation_update_media_object"
        /\ Running(c)

StepCreateItemList ==
    \E c \in Callers :
        /\ frames[c].fn = "mutation_create_itemlist"
        /\ Running(c)

StepUpdateItemList ==
    \E c \in Callers :
        /\ frames[c].fn = "mutation_update_itemlist"
        /\ Running(c)

StepQueryDocument ==
    \E c \in Callers :
        /\ frames[c].fn = "query_document"
        /\ Running(c)

StepQueryMediaObject ==
    \E c \in Callers :
        /\ frames[c].fn = "query_mediaobject"
        /\ Running(c)

StepSequenceAddItem ==
    \E c \in Callers :
        /\ frames[c].fn = "mutation_sequence_add_listitem_item"
        /\ Running(c)

StepSequenceAddNextItem ==
    \E c \in Callers :
        /\ frames[c].fn = "mutation_sequence_add_listitem_nextitem"
        /\ Running(c)

NextInterleaved ==
    \/ StepCreateApplication
    \/ StepCreateMediaObject
    \/ StepUpdateMediaObject
    \/ StepCreateItemList
    \/ StepUpdateItemList
    \/ StepQueryDocument
    \/ StepQueryMediaObject
    \/ StepSequenceAddItem
    \/ StepSequenceAddNextItem

\* Every caller is a thread of its own that keeps running until its call
\* returns or raises.
Interleaved ==
    /\ InitInterleaved
    /\ [][NextInterleaved]_vars
    /\ \A c \in Callers : WF_vars(Running(c))

(***************************************************************************)
(* Properties.                                                             *)
(***************************************************************************)
Done == outcome /= Pending

LanguageFunctions ==
    {"mutation_create_application", "mutation_create_media_object",
     "mutation_update_media_object"}

\* A MIME type argument that passes: omitted, or containing "/".
MimeOk(v) == v = None \/ Contains(v, "/")

\* The required arguments of the running mutation_create_media_object.
MediaObjectRequiredPresent ==
    \A p \in {"title", "contributor", "creator", "source", "format_"} :
        ~IsMissing(call.kw[p])

\* No constraint that the called function tests before the language is
\* violated by the call.
ChecksBeforeLanguagePass ==
    IF call.fn = "mutation_create_media_object" THEN MediaObjectRequiredPresent
    ELSE IF call.fn = "mutation_update_media_object"
    THEN MimeOk(call.kw.format_) /\ MimeOk(call.kw.encodingformat)
    ELSE TRUE

\* No constraint other than the language is violated by the call.
ChecksBesideLanguagePass ==
    IF call.fn = "mutation_create_media_object"
    THEN /\ MediaObjectRequiredPresent
         /\ MimeOk(call.kw.format_)
         /\ MimeOk(call.kw.encodingformat)
    ELSE IF call.fn = "mutation_update_media_object"
    THEN MimeOk(call.kw.format_) /\ MimeOk(call.kw.encodingformat)
    ELSE MimeOk(call.kw.formatin)

NoUpperCase(v) ==
    \A i \in DOMAIN v.s : \A j \in DOMAIN UpperCase : v.s[i] /= UpperCase[j]

\* C2: a language entry handed to the formatter by one of the three
\* functions is a StringConstant marker whose text is the lower-case form of
\* the supplied code, has no upper-case letter and is a supported language;
\* and with a supported code (and no other constraint violated) the call
\* yields a document that carries the entry.
C2_LanguageEntryIsLowercaseConstant ==
    /\ ( /\ Done
         /\ call.fn \in LanguageFunctions
         /\ IsDocument(outcome)
         /\ "language" \in DOMAIN outcome.args )
       => /\ outcome.args.language.t = "StringConstant"
          /\ outcome.args.language.value = lower(call.kw.language)
          /\ NoUpperCase(outcome.args.language.value)
          /\ outcome.args.language.value \in SUPPORTED_LANGUAGES
    /\ ( /\ Done
         /\ call.fn \in LanguageFunctions
         /\ call.kw.language \in SUPPORTED_LANGUAGES
         /\ ChecksBesideLanguagePass )
       => /\ IsDocument(outcome)
          /\ "language" \in DOMAIN outcome.args

\* A media object was created with language "nl" and the formatter received
\* the unquoted token nl.
C2_Witness ==
    /\ Done
    /\ call.fn = "mutation_create_media_object"
    /\ call.kw.language = Str(<<"n", "l">>)
    /\ IsDocument(outcome)
    /\ "language" \in DOMAIN outcome.args
    /\ outcome.args.language = StringConstant(Str(<<"n", "l">>))

MimeFunctions ==
    {"mutation_create_application", "mutation_create_media_object",
     "mutation_update_media_object", "query_mediaobject"}

\* A supplied MIME type argument of the call has no "/".
MimeArgumentWithoutSlash ==
    IF call.fn = "mutation_create_application" THEN ~MimeOk(call.kw.formatin)
    ELSE IF call.fn = "query_mediaobject" THEN ~MimeOk(call.kw.encodingFormat)
    ELSE ~MimeOk(call.kw.format_) \/ ~MimeOk(call.kw.encodingformat)

\* No constraint that the called function tests before the MIME types is
\* violated by the call.
ChecksBeforeMimePass ==
    IF call.fn = "mutation_create_application"
    THEN call.kw.language \in SUPPORTED_LANGUAGES
    ELSE IF call.fn = "mutation_create_media_object"
    THEN /\ MediaObjectRequiredPresent
         /\ call.kw.language \in SUPPORTED_LANGUAGES \cup {None}
    ELSE TRUE

\* C3: a supplied MIME type argument without "/" (the empty string
\* included) makes the call raise NotAMimeTypeException, in
\* mutation_create_application, mutation_create_media_object,
\* mutation_update_media_object and query_mediaobject, whenever no constraint
\* tested before the MIME types is violated as well.
C3_MimeWithoutSlashRaises ==
    ( /\ Done
      /\ call.fn \in MimeFunctions
      /\ MimeArgumentWithoutSlash
      /\ ChecksBeforeMimePass )
    => RaisedExc(outcome, "NotAMimeTypeException")

FilteringFunctions ==
    {"mutation_create_media_object", "mutation_update_media_object",
     "mutation_create_itemlist", "mutation_update_itemlist",
     "mutation_create_listitem", "mutation_update_listitem",
     "query_mediaobject"}

\* The key of the argument mapping that carries parameter p.
KeyOf(p) ==
    CASE p = "format_" -> "format"
      [] p = "encodingformat" -> "encodingFormat"
      [] p = "embedurl" -> "embedUrl"
      [] p = "contenturl" -> "contentUrl"
      [] p = "inlanguage" -> "inLanguage"
      [] p = "itemlistorder" -> "itemListOrder"
      [] p = "additionaltype" -> "additionalType"
      [] p = "itemurl" -> "itemUrl"
      [] OTHER -> p

\* The parameters of the call that become arguments of the operation.
ArgumentParameters == DOMAIN call.kw \ {"return_items_list"}

\* C4: the argument mapping that mutation_create_media_object,
\* mutation_update_media_object, mutation_create_itemlist,
\* mutation_update_itemlist, mutation_create_listitem,
\* mutation_update_listitem and query_mediaobject hand to the formatter has
\* no key whose value is None, and no key for a parameter left as None.
C4_NoKeyForOmittedOptional ==
    ( /\ Done
      /\ call.fn \in FilteringFunctions
      /\ IsDocument(outcome) )
    => /\ \A k \in DOMAIN outcome.args : outcome.args[k] /= None
       /\ \A p \in ArgumentParameters :
            call.kw[p] = None => KeyOf(p) \notin DOMAIN outcome.args

\* An item list was created with a description and without contributor and
\* additionaltype: the mapping carries the first and not the other two.
C4_Witness ==
    /\ Done
    /\ call.fn = "mutation_create_itemlist"
    /\ call.kw.description = Text
    /\ call.kw.contributor = None
    /\ call.kw.additionaltype = None
    /\ IsDocument(outcome)
    /\ "description" \in DOMAIN outcome.args
    /\ "contributor" \notin DOMAIN outcome.args
    /\ "additionalType" \notin DOMAIN outcome.args

\* C5: mutation_create_application called with description left as None
\* hands the formatter an argument mapping without the key description.
C5_AbsentDescriptionDropped ==
    ( /\ Done
      /\ call.fn = "mutation_create_application"
      /\ call.kw.description = None
      /\ IsDocument(outcome) )
    => "description" \notin DOMAIN outcome.args

\* The required parameters of the create functions.
RequiredParameters ==
    IF call.fn = "mutation_create_media_object"
    THEN {"title", "contributor", "creator", "source", "format_"}
    ELSE IF call.fn = "mutation_create_itemlist" THEN {"name", "creator"}
    ELSE {"creator"}

\* C6: a call of mutation_create_media_object, mutation_create_itemlist or
\* mutation_create_listitem with a required parameter None or empty never
\* reaches the formatter: it raises, and it raises the missing-argument
\* error whenever the constraint tested before the required arguments (the
\* order type of mutation_create_itemlist) is not violated as well.
C6_MissingRequiredRaises ==
    ( /\ Done
      /\ call.fn \in {"mutation_create_media_object", "mutation_create_itemlist",
                      "mutation_create_listitem"}
      /\ \E p \in RequiredParameters : IsMissing(call.kw[p]) )
    => /\ Raised(outcome)
       /\ ( call.fn = "mutation_create_itemlist"
              => IsItemListOrderType(call.kw.itemlistorder) )
            => RaisedExc(outcome, "MissingArgument")

\* A list item was asked for with an empty creator and the missing-argument
\* error was raised.
C6_Witness ==
    /\ Done
    /\ call.fn = "mutation_create_listitem"
    /\ call.kw.creator = Empty
    /\ RaisedExc(outcome, "MissingArgument")

UpdateFunctions ==
    {"mutation_update_itemlist", "mutation_update_listitem",
     "mutation_update_media_object"}

\* The optional fields of the running update call hold valid values.
UpdateValuesValid ==
    IF call.fn = "mutation_update_media_object"
    THEN /\ MimeOk(call.kw.format_)
         /\ MimeOk(call.kw.encodingformat)
         /\ call.kw.language \in SUPPORTED_LANGUAGES \cup {None}
         /\ call.kw.date /= Empty
    ELSE IF call.fn = "mutation_update_itemlist"
    THEN call.kw.itemlistorder \in ItemListOrderType \cup {None}
    ELSE TRUE

\* C7: mutation_update_itemlist, mutation_update_listitem and
\* mutation_update_media_object, called with identifier None or empty (and
\* valid optional fields), raise the missing-argument error and emit no
\* document.
C7_UpdateRequiresIdentifier ==
    ( /\ Done
      /\ call.fn \in UpdateFunctions
      /\ IsMissing(call.kw.identifier)
      /\ UpdateValuesValid )
    => RaisedExc(outcome, "MissingArgument")

LinkFunctions ==
    {"mutation_add_listitem_nextitem", "mutation_remove_listitem_nextitem",
     "mutation_add_listitem_item", "mutation_remove_listitem_item",
     "mutation_add_itemlist_itemlist_element",
     "mutation_remove_itemlist_itemlist_element",
     "mutation_merge_media_object_work_example",
     "mutation_remove_media_object_work_example",
     "mutation_merge_media_object_encoding",
     "mutation_remove_media_object_encoding"}

\* C8: every link function, of ItemList/ListItem and of MediaObject alike,
\* raises the missing-argument error when one of its two identifiers is None
\* or empty.
C8_LinkRequiresBothIdentifiers ==
    ( /\ Done
      /\ call.fn \in LinkFunctions
      /\ \E p \in DOMAIN call.kw : IsMissing(call.kw[p]) )
    => RaisedExc(outcome, "MissingArgument")

\* The parameters the caller supplied.
SuppliedParameters == { p \in ArgumentParameters : call.kw[p] /= None }

\* The value the mapping is to carry for parameter p supplied as v: v, as a
\* date marker for date, as an unquoted token for language and
\* itemlistorder, as a list for an additionaltype given as one string.
CallersValue(p, v) ==
    IF p = "date" THEN _Neo4jDate(v)
    ELSE IF p \in {"language", "itemlistorder"} THEN StringConstant(v)
    ELSE IF p = "additionaltype" /\ IsStr(v) THEN List(<<v>>)
    ELSE v

ElementAlias(pos) ==
    IF pos < 10
    THEN <<"MergeItemListItemListElementAlias",
           <<"0", "1", "2", "3", "4", "5", "6", "7", "8", "9">>[pos + 1]>>
    ELSE FormatAlias("MergeItemListItemListElementAlias", pos)

\* C10: mutation_sequence_add_itemlist_itemlist_element with an item list
\* and a non-empty list of N element ids hands the sequence formatter
\* exactly N triples in the order of the list, the i-th (from 0) with alias
\* MergeItemListItemListElementAlias<i>, operation
\* MergeItemListItemListElement and arguments [itemlist_id, element_ids[i]],
\* and the aliases are pairwise distinct.
C10_SequenceOfElementLinks ==
    ( /\ Done
      /\ call.fn = "mutation_sequence_add_itemlist_itemlist_element"
      /\ ~IsMissing(call.kw.itemlist_id)
      /\ ~IsMissing(call.kw.element_ids) )
    => /\ IsDocument(outcome)
       /\ outcome.formatter = "format_sequence_link_mutation"
       /\ Len(outcome.mutations) = Len(call.kw.element_ids.items)
       /\ \A i \in DOMAIN outcome.mutations :
            outcome.mutations[i] =
                <<ElementAlias(i - 1), "MergeItemListItemListElement",
                  <<call.kw.itemlist_id, call.kw.element_ids.items[i]>> >>
       /\ \A i, j \in DOMAIN outcome.mutations :
            i /= j => outcome.mutations[i][1] /= outcome.mutations[j][1]

\* Three elements were added to an item list in one document.
C10_Witness ==
    /\ Done
    /\ call.fn = "mutation_sequence_add_itemlist_itemlist_element"
    /\ IsDocument(outcome)
    /\ Len(outcome.mutations) = 3
    /\ outcome.mutations[3][1] = <<"MergeItemListItemListElementAlias", "2">>
    /\ outcome.mutations[1][3] /= outcome.mutations[3][3]

CompositionAuthorFunctions ==
    {"get_query_add_composition_author", "get_query_remove_composition_author"}

\* The two positional parameters of a link function, in the order of its
\* signature.
LinkParameters(fn) ==
    CASE fn \in {"mutation_add_listitem_nextitem",
                 "mutation_remove_listitem_nextitem"} ->
            <<"listitem_id", "nextitem_id">>
      [] fn \in {"mutation_add_listitem_item",
                 "mutation_remove_listitem_item"} ->
            <<"listitem_id", "item_id">>
      [] fn \in {"mutation_add_itemlist_itemlist_element",
                 "mutation_remove_itemlist_itemlist_element"} ->
            <<"itemlist_id", "element_id">>
      [] fn \in {"mutation_merge_media_object_work_example",
                 "mutation_remove_media_object_work_example"} ->
            <<"media_object_identifier", "work_identifier">>
      [] fn \in {"mutation_merge_media_object_encoding",
                 "mutation_remove_media_object_encoding"} ->
            <<"media_object_identifier_1", "media_object_identifier_2">>
      [] fn \in CompositionAuthorFunctions ->
            <<"composition_id", "composer_id">>

\* What the link function fn ends with when called with kw.
LinkCall(fn, kw) ==
    CASE fn = "mutation_add_listitem_nextitem" ->
            mutation_add_listitem_nextitem(kw)
      [] fn = "mutation_remove_listitem_nextitem" ->
            mutation_remove_listitem_nextitem(kw)
      [] fn = "mutation_add_listitem_item" -> mutation_add_listitem_item(kw)
      [] fn = "mutation_remove_listitem_item" ->
            mutation_remove_listitem_item(kw)
      [] fn = "mutation_add_itemlist_itemlist_element" ->
            mutation_add_itemlist_itemlist_element(kw)
      [] fn = "mutation_remove_itemlist_itemlist_element" ->
            mutation_remove_itemlist_itemlist_element(kw)
      [] fn = "mutation_merge_media_object_work_example" ->
            mutation_merge_media_object_work_example(kw)
      [] fn = "mutation_remove_media_object_work_example" ->
            mutation_remove_media_object_work_example(kw)
      [] fn = "mutation_merge_media_object_encoding" ->
            mutation_merge_media_object_encoding(kw)
      [] fn = "mutation_remove_media_object_encoding" ->
            mutation_remove_media_object_encoding(kw)
      [] fn = "get_query_add_composition_author" ->
            get_query_add_composition_author(kw)
      [] fn = "get_query_remove_composition_author" ->
            get_query_remove_composition_author(kw)

\* The bound parameters of a link call with its two identifiers exchanged.
Exchanged(fn, kw) ==
    LET p == LinkParameters(fn)
    IN (p[1] :> kw[p[2]]) @@ (p[2] :> kw[p[1]])

\* C11: for every link function (ItemList/ListItem, MediaObject, composition
\* author) and every pair of identifiers a, b, the call with (a, b) places
\* a in the from slot and b in the to slot, and the call with (b, a) ends
\* the same way (the same error, or the same formatter and operation name)
\* but for the two identifier values, which are exchanged.
C11_LinkSymmetricInShape ==
    ( /\ Done
      /\ call.fn \in LinkFunctions \cup CompositionAuthorFunctions )
    => LET p == LinkParameters(call.fn)
           exchanged == LinkCall(call.fn, Exchanged(call.fn, call.kw))
       IN /\ IsDocument(outcome) <=> IsDocument(exchanged)
          /\ Raised(outcome) => exchanged = outcome
          /\ IsDocument(outcome) =>
                /\ exchanged.formatter = outcome.formatter
                /\ exchanged.operation = outcome.operation
                /\ exchanged.identifier_1 = outcome.identifier_2
                /\ exchanged.identifier_2 = outcome.identifier_1
                /\ DOMAIN exchanged = DOMAIN outcome
          /\ ( /\ IsDocument(outcome)
               /\ \A i \in 1..2 : ~IsMissing(call.kw[p[i]]) )
             => /\ outcome.identifier_1 = call.kw[p[1]]
                /\ outcome.identifier_2 = call.kw[p[2]]

\* A composer was linked to a composition: the composition in the from slot,
\* the composer in the to slot.
C11_Witness ==
    /\ Done
    /\ call.fn = "get_query_add_composition_author"
    /\ call.kw.composition_id = Str(<<"i">>)
    /\ call.kw.composer_id = Str(<<"j">>)
    /\ IsDocument(outcome)
    /\ outcome.identifier_1 = Str(<<"i">>)
    /\ outcome.identifier_2 = Str(<<"j">>)

\* C14: mutation_create_itemlist raises InvalidItemListOrderTypeException
\* for every itemlistorder that is not a member of ItemListOrderType (None
\* and a plain string naming a member included); mutation_update_itemlist
\* raises it for every itemlistorder that is neither None nor a member, and
\* does not raise it for None.
C14_InvalidOrderTypeRaises ==
    Done =>
      /\ ( /\ call.fn = "mutation_create_itemlist"
           /\ call.kw.itemlistorder \notin ItemListOrderType )
         => RaisedExc(outcome, "InvalidItemListOrderTypeException")
      /\ ( /\ call.fn = "mutation_update_itemlist"
           /\ call.kw.itemlistorder /= None
           /\ call.kw.itemlistorder \notin ItemListOrderType )
         => RaisedExc(outcome, "InvalidItemListOrderTypeException")
      /\ ( /\ call.fn = "mutation_update_itemlist"
           /\ call.kw.itemlistorder = None )
         => ~RaisedExc(outcome, "InvalidItemListOrderTypeException")

\* An item list was created with the name of a member as a plain string and
\* the call raised the ordering error.
C14_Witness ==
    /\ Done
    /\ call.fn = "mutation_create_itemlist"
    /\ IsStr(call.kw.itemlistorder)
    /\ ~IsMissing(call.kw.name)
    /\ ~IsMissing(call.kw.creator)
    /\ RaisedExc(outcome, "InvalidItemListOrderTypeException")

\* C15: query_mediaobject raises UnsupportedLanguageException when the
\* inLanguage argument is supplied and is not one of en, es, ca, nl, de, fr.
C15_QueryValidatesInLanguage ==
    ( /\ Done
      /\ call.fn = "query_mediaobject"
      /\ call.kw.inLanguage /= None
      /\ call.kw.inLanguage \notin SUPPORTED_LANGUAGES )
    => RaisedExc(outcome, "UnsupportedLanguageException")

\* C16: mutation_update_media_object raises an error, and produces no
\* document, when the supplied language or the supplied inlanguage is not
\* one of the supported languages.
C16_UpdateValidatesBothLanguages ==
    ( /\ Done
      /\ call.fn = "mutation_update_media_object"
      /\ \E p \in {"language", "inlanguage"} :
            /\ call.kw[p] /= None
            /\ call.kw[p] \notin SUPPORTED_LANGUAGES )
    => Raised(outcome)

\* The language argument of query_document passes its validation: it is
\* absent, empty or one of the supported codes.
QueryDocumentLanguagePasses ==
    ~Truthy(call.kw.language) \/ call.kw.language \in SUPPORTED_LANGUAGES

C18_CompositionLanguageValidated ==
    ( /\ Done
      /\ call.fn = "transform_data_update_composition"
      /\ "Language" \in DOMAIN call.kw.composition.entries
      /\ call.kw.composition.entries.Language \notin SUPPORTED_LANGUAGES )
    => RaisedExc(outcome, "UnsupportedLanguageException")

\* C19: mutation_sequence_create_listitem with N list items, and with
\* description omitted or a list of at least N descriptions, hands the
\* sequence formatter exactly N CreateListItem triples in order, the i-th
\* (from 0) with alias ListItemAlias<i>, position i and, when descriptions
\* are given, description[i]; and no triple's mapping has a key for creator,
\* name or description when that parameter is left as None.
C19_SequenceOfCreatedListItems ==
    ( /\ Done
      /\ call.fn = "mutation_sequence_create_listitem"
      /\ call.kw.listitems /= None
      /\ \/ call.kw.description = None
         \/ Len(call.kw.description.items) >= Len(call.kw.listitems.items) )
    => /\ IsDocument(outcome)
       /\ outcome.formatter = "format_sequence_mutation"
       /\ Len(outcome.mutations) = Len(call.kw.listitems.items)
       /\ \A i \in DOMAIN outcome.mutations :
            LET triple == outcome.mutations[i]
            IN /\ triple[1] = FormatAlias("ListItemAlias", i - 1)
               /\ triple[2] = "CreateListItem"
               /\ triple[3].position = IntV(i - 1)
               /\ call.kw.description /= None
                  => triple[3].description = call.kw.description.items[i]
               /\ \A p \in {"creator", "name", "description"} :
                    call.kw[p] = None => p \notin DOMAIN triple[3]

\* The bound parameters of frame f as values: a reference stands for the
\* list it points to, a parameter left out for its default.
OwnArguments(f) ==
    [p \in DOMAIN f.kw |->
        IF f.kw[p] = Omitted THEN DefaultReturnItems
        ELSE Deref(f.kw[p], heap)]

\* What function fn ends with when it runs alone on the arguments kw.
CallResult(fn, kw) ==
    CASE fn = "mutation_create_application" -> mutation_create_application(kw)
      [] fn = "mutation_create_media_object" -> mutation_create_media_object(kw)
      [] fn = "mutation_update_media_object" -> mutation_update_media_object(kw)
      [] fn = "mutation_create_itemlist" -> mutation_create_itemlist(kw)
      [] fn = "mutation_update_itemlist" -> mutation_update_itemlist(kw)
      [] fn = "query_document" -> query_document(kw)
      [] fn = "query_mediaobject" -> query_mediaobject(kw)
      [] fn = "mutation_sequence_add_listitem_item" ->
            mutation_sequence_add_listitem_item(kw)
      [] fn = "mutation_sequence_add_listitem_nextitem" ->
            mutation_sequence_add_listitem_nextitem(kw)

ValidatingFunctions ==
    {"mutation_create_application", "mutation_create_media_object",
     "mutation_update_media_object", "mutation_create_itemlist",
     "mutation_update_itemlist", "query_document"}

\* Frame f has no partial output: while it runs it has returned nothing;
\* if it raised, the formatter was never invoked; if it returned, it
\* returned the formatter's whole document or the module's query-all text.
NoPartialOutput(f) ==
    /\ f.pc /= 0 => f.outcome = Pending /\ f.document = Pending
    /\ Raised(f.outcome) => f.document = Pending
    /\ f.pc = 0 =>
         \/ Raised(f.outcome)
         \/ /\ IsDocument(f.outcome)
            /\ f.document /= Pending => f.outcome = f.document
            /\ f.document = Pending =>
                 f.outcome = Returned("QUERY_DIGITALDOCUMENT_ALL")

\* C13: in mutation_create_application, mutation_create_media_object,
\* mutation_update_media_object, mutation_create_itemlist,
\* mutation_update_itemlist and query_document every validation precedes
\* the one call of the formatter: once the formatter was invoked the call
\* never raises, and every call ends with a whole document or with an error
\* and no output.
C13_ValidationPrecedesFormatter ==
    /\ [](\A c \in Callers :
            frames[c].fn \in ValidatingFunctions => NoPartialOutput(frames[c]))
    /\ [][\A c \in Callers :
            ( /\ frames[c].fn \in ValidatingFunctions
              /\ frames[c].document /= Pending )
            => /\ frames'[c].document = frames[c].document
               /\ ~Raised(frames'[c].outcome)]_vars

\* A media object call ran its four validations and got its document from
\* the formatter, and an item list update raised on its second validation
\* without the formatter having been invoked.
C13_Witness ==
    /\ frames["caller1"].fn = "mutation_create_media_object"
    /\ frames["caller1"].pc = 0
    /\ IsDocument(frames["caller1"].outcome)
    /\ frames["caller1"].document = frames["caller1"].outcome
    /\ frames["caller2"].fn = "mutation_update_itemlist"
    /\ frames["caller2"].pc = 0
    /\ RaisedExc(frames["caller2"].outcome, "MissingArgument")
    /\ frames["caller2"].document = Pending

\* The alias expected for the link at position pos (from 0).
NextItemAlias(pos) ==
    IF pos < 10
    THEN <<"MergeListItemNextItemAlias",
           <<"0", "1", "2", "3", "4", "5", "6", "7", "8", "9">>[pos + 1]>>
    ELSE FormatAlias("MergeListItemNextItemAlias", pos)

\* The call of frame f, of a list of N >= 1 identifiers, ended with N - 1
\* links, the i-th (from 0) from listitem_ids[i] to listitem_ids[i + 1].
ChainOfNextItems(f) ==
    LET listitem_ids == heap[f.kw.listitem_ids.ref]
    IN ( /\ f.pc = 0
         /\ Len(listitem_ids) >= 1 )
       => /\ IsDocument(f.outcome)
          /\ f.outcome.formatter = "format_sequence_link_mutation"
          /\ Len(f.outcome.mutations) = Len(listitem_ids) - 1
          /\ \A i \in DOMAIN f.outcome.mutations :
               f.outcome.mutations[i] =
                   <<NextItemAlias(i - 1), "MergeListItemNextItem",
                     <<listitem_ids[i], listitem_ids[i + 1]>> >>
          /\ \A i \in DOMAIN f.outcome.mutations :
               i + 1 \in DOMAIN f.outcome.mutations =>
                   f.outcome.mutations[i][3][2] =
                       f.outcome.mutations[i + 1][3][1]

\* C20: every call of mutation_sequence_add_listitem_nextitem ends, and for
\* a list of N >= 1 identifiers it hands the sequence formatter exactly
\* N - 1 MergeListItemNextItem links, the i-th (from 0) with alias
\* MergeListItemNextItemAlias<i> and arguments [listitem_ids[i],
\* listitem_ids[i + 1]]: one chain through the list in order, none for a
\* single identifier.
C20_NextItemChainTerminates ==
    /\ [](\A c \in Callers :
            frames[c].fn = "mutation_sequence_add_listitem_nextitem"
            => ChainOfNextItems(frames[c]))
    /\ \A c \in Callers :
          (frames[c].fn = "mutation_sequence_add_listitem_nextitem")
          ~> (frames[c].pc = 0)

\* A list of three identifiers was chained with two links after two passes
\* of the loop.
C20_Witness ==
    /\ frames["caller1"].fn = "mutation_sequence_add_listitem_nextitem"
    /\ frames["caller1"].pc = 0
    /\ frames["caller1"].pos = 2
    /\ Len(heap[frames["caller1"].kw.listitem_ids.ref]) = 3
    /\ IsDocument(frames["caller1"].outcome)
    /\ Len(frames["caller1"].outcome.mutations) = 2
    /\ frames["caller1"].outcome.mutations[2][3] = <<Str(<<"j">>), Str(<<"j">>)>>

\* The alias expected for the pair at position pos (from 0).
ItemAlias(pos) ==
    IF pos < 10
    THEN <<"MergeListItemItemAlias",
           <<"0", "1", "2", "3", "4", "5", "6", "7", "8", "9">>[pos + 1]>>
    ELSE FormatAlias("MergeListItemItemAlias", pos)

\* C21: mutation_sequence_add_listitem_item, called with a non-empty list
\* of list items and a list of items, pairs the two lists by position: when
\* item_ids is the shorter list the call raises and returns no document;
\* otherwise there are exactly len(listitem_ids) links, the i-th being
\* [listitem_ids[i], item_ids[i]], so that the item ids beyond
\* len(listitem_ids) are in no link.
C21_PairsByPosition ==
    ( /\ Done
      /\ call.fn = "mutation_sequence_add_listitem_item"
      /\ call.kw.listitem_ids /= None
      /\ call.kw.item_ids /= None
      /\ call.kw.listitem_ids.items /= <<>> )
    => LET listitem_ids == call.kw.listitem_ids.items
           item_ids == call.kw.item_ids.items
       IN IF Len(item_ids) < Len(listitem_ids)
          THEN Raised(outcome)
          ELSE /\ IsDocument(outcome)
               /\ outcome.formatter = "format_sequence_link_mutation"
               /\ Len(outcome.mutations) = Len(listitem_ids)
               /\ \A i \in DOMAIN outcome.mutations :
                    outcome.mutations[i] =
                        <<ItemAlias(i - 1), "MergeListItemItem",
                          <<listitem_ids[i], item_ids[i]>> >>

\* Two list items were paired with the first two of three items; the third
\* item, which differs from both, is in no link.
C21_Witness ==
    /\ Done
    /\ call.fn = "mutation_sequence_add_listitem_item"
    /\ call.kw.listitem_ids /= None
    /\ call.kw.item_ids /= None
    /\ Len(call.kw.listitem_ids.items) = 2
    /\ Len(call.kw.item_ids.items) = 3
    /\ call.kw.item_ids.items[3] \notin
          {call.kw.item_ids.items[1], call.kw.item_ids.items[2]}
    /\ IsDocument(outcome)
    /\ Len(outcome.mutations) = 2
    /\ \A i \in 1..2 :
          outcome.mutations[i][3][2] /= call.kw.item_ids.items[3]

\* A supplied MIME type without "/".
BadMime(v) == v /= None /\ ~Contains(v, "/")

\* The constraints of each validating function, highest precedence first,
\* each with whether the call violates it and the error it stands for.
Constraints(fn, kw) ==
    CASE fn = "mutation_create_media_object" ->
           << [violated |-> \E v \in {kw.title, kw.contributor, kw.creator,
                                      kw.source, kw.format_} : IsMissing(v),
               error |-> Raise("MissingArgument")],
              [violated |-> /\ kw.language /= None
                            /\ kw.language \notin SUPPORTED_LANGUAGES,
               error |-> Raise("UnsupportedLanguageException")],
              [violated |-> BadMime(kw.format_),
               error |-> RaiseWith("NotAMimeTypeException", kw.format_)],
              [violated |-> BadMime(kw.encodingformat),
               error |-> RaiseWith("NotAMimeTypeException",
                                   kw.encodingformat)] >>
      [] fn = "mutation_update_media_object" ->
           << [violated |-> BadMime(kw.format_) \/ BadMime(kw.encodingformat),
               error |-> RaiseWith("NotAMimeTypeException",
                                   IF BadMime(kw.format_) THEN kw.format_
                                   ELSE kw.encodingformat)],
              [violated |-> /\ kw.language /= None
                            /\ kw.language \notin SUPPORTED_LANGUAGES,
               error |-> Raise("UnsupportedLanguageException")] >>
      [] fn = "mutation_create_itemlist" ->
           << [violated |-> ~IsItemListOrderType(kw.itemlistorder),
               error |-> Raise("InvalidItemListOrderTypeException")],
              [violated |-> IsMissing(kw.name) \/ IsMissing(kw.creator),
               error |-> Raise("MissingArgument")] >>
      [] fn = "mutation_create_application" ->
           << [violated |-> kw.language \notin SUPPORTED_LANGUAGES,
               error |-> Raise("UnsupportedLanguageException")],
              [violated |-> BadMime(kw.formatin),
               error |-> RaiseWith("NotAMimeTypeException", kw.formatin)] >>
      [] OTHER -> <<>>

Violated(fn, kw) ==
    {i \in DOMAIN Constraints(fn, kw) : Constraints(fn, kw)[i].violated}

\* The violated constraint of highest precedence.
Winning(fn, kw) ==
    CHOOSE i \in Violated(fn, kw) : \A j \in Violated(fn, kw) : i <= j

\* C22: a call that violates several constraints raises the error of the
\* violated constraint of highest precedence: in mutation_create_media_object
\* missing argument, then unsupported language, then format_, then
\* encodingformat; in mutation_update_media_object a bad MIME type, then the
\* language; in mutation_create_itemlist the order type, then a missing name
\* or creator; in mutation_create_application the language, then formatin.
C22_ErrorPrecedence ==
    (Done /\ Cardinality(Violated(call.fn, call.kw)) >= 2)
    => outcome = Constraints(call.fn, call.kw)[Winning(call.fn, call.kw)].error

\* A media object was created with format_ "ab" and encodingformat "", both
\* without "/", and the error names format_.
C22_Witness ==
    /\ Done
    /\ call.fn = "mutation_create_media_object"
    /\ Violated(call.fn, call.kw) = {3, 4}
    /\ call.kw.format_ /= call.kw.encodingformat
    /\ outcome = RaiseWith("NotAMimeTypeException", call.kw.format_)

\* C23: mutation_add_entrypoint_application(application_id, entrypoint_id)
\* links entry point -> application: in the AddEntryPointActionApplication
\* document the from slot (identifier_1) holds entrypoint_id and the to slot
\* (identifier_2) holds application_id, the reverse of the declaration order.
C23_EntryPointToApplication ==
    (Done /\ call.fn = "mutation_add_entrypoint_application")
    => /\ IsDocument(outcome)
       /\ outcome.formatter = "mutation_link"
       /\ outcome.operation = "AddEntryPointActionApplication"
       /\ outcome.identifier_1 = call.kw.entrypoint_id
       /\ outcome.identifier_2 = call.kw.application_id

\* An application "i" was given the entry point "j": from is "j", to is "i".
C23_Witness ==
    /\ Done
    /\ call.fn = "mutation_add_entrypoint_application"
    /\ call.kw.application_id = Str(<<"i">>)
    /\ call.kw.entrypoint_id = Str(<<"j">>)
    /\ IsDocument(outcome)
    /\ outcome.identifier_1 = Str(<<"j">>)
    /\ outcome.identifier_2 = Str(<<"i">>)

====
